---- MODULE Spec2Model ----
(***************************************************************************)
(* A model of the weekly timetable generator of koku-kaizora:              *)
(* SmartTimetableEngine (app/core/timetable_engine.py), the validators     *)
(* (app/utils/validators.py) and the session store behind                  *)
(* TimetableDataHelper (app/utils/data_helpers.py).                        *)
(*                                                                         *)
(* Times are minutes after midnight (09:00 = 540) on a 30-minute grid,     *)
(* dates are day numbers with day 0 = Monday 2024-01-01, so that           *)
(* date.weekday() is date % 7.  A message is a tuple whose first element   *)
(* is the fixed text of the Python f-string and whose other elements are   *)
(* the interpolated values.                                                *)
(***************************************************************************)
EXTENDS Integers, Sequences, FiniteSets, TLC

(***************************************************************************)
(* Bounds of the model.                                                    *)
(***************************************************************************)
\* sessions_per_week of the first child of a children table ranges over 0..MaxNeed
MaxNeed == 6

(***************************************************************************)
(* Program constants.                                                      *)
(***************************************************************************)
working_hours_start == 480
working_hours_end == 960
max_sessions_per_child_per_day == 5
max_sessions_per_therapist_per_day == 8
SlotMinutes == 60
MinutesPerDay == 1440
MinDuration == 30
MaxDuration == 120
MaxWeeklySessions == 25
BasePriority == 100
FairnessTarget == 10
MorningEnd == 720
DayDistributionTarget == 3
WorkloadTarget == 6
DaysPerWeek == 7

valid_days == <<"Monday", "Tuesday", "Wednesday", "Thursday", "Friday", "Saturday">>

(***************************************************************************)
(* Sequence helpers.                                                       *)
(***************************************************************************)
Range(s) == {s[i] : i \in 1..Len(s)}

\* the concatenation of Op(s[1]), ..., Op(s[Len(s)])
FlatMap(s, Op(_)) ==
  LET f[i \in 0..Len(s)] == IF i = 0 THEN <<>> ELSE f[i - 1] \o Op(s[i])
  IN f[Len(s)]

\* the sequence Op(s[1]), ..., Op(s[Len(s)])
Map(s, Op(_)) == [i \in 1..Len(s) |-> Op(s[i])]

\* the sum of Op(s[i])
SumSeq(s, Op(_)) ==
  LET f[i \in 0..Len(s)] == IF i = 0 THEN 0 ELSE f[i - 1] + Op(s[i])
  IN f[Len(s)]

\* x inserted into the sorted sequence s after every element not greater
\* than it: one step of a stable insertion sort under LessEq
InsertSorted(s, x, LessEq(_, _)) ==
  LET k == Cardinality({i \in 1..Len(s) : LessEq(s[i], x)})
      \* LessEq is total and s is sorted, so the elements <= x are a prefix
  IN SubSeq(s, 1, k) \o <<x>> \o SubSeq(s, k + 1, Len(s))

\* list.sort(key=...): a stable sort, LessEq(a, b) being key(a) <= key(b)
StableSort(s, LessEq(_, _)) ==
  LET f[i \in 0..Len(s)] ==
        IF i = 0 THEN <<>> ELSE InsertSorted(f[i - 1], s[i], LessEq)
  IN f[Len(s)]

Max(a, b) == IF a >= b THEN a ELSE b
Min(a, b) == IF a <= b THEN a ELSE b

(***************************************************************************)
(* The data: availability windows, children and therapists rows as the     *)
(* data helper returns them.                                               *)
(***************************************************************************)
Win(d, s, e) == [day_of_week |-> d, start_time |-> s, end_time |-> e]

Need(dept, n) ==
  [department_id |-> dept, department_name |-> dept, sessions_per_week |-> n]

\* the name of a child is not its id, nor the name of a therapist
ChildRow(id, needs, avail) ==
  [id |-> id, name |-> <<"child", id>>, departments |-> needs, availability |-> avail]

TherapistRow(id, dept, avail) ==
  [id |-> id, name |-> <<"therapist", id>>, department_id |-> dept,
   department_name |-> dept, availability |-> avail]

(***************************************************************************)
(* TimetableValidator.                                                     *)
(***************************************************************************)
\* IsValidDay with Sunday among the working days
IsValidDayWithSunday(day) == day \in Range(valid_days) \cup {"Sunday"}

IsValidDay(day) == day \in Range(valid_days)

\* IsValidTimeRange without the upper limit of the duration
IsValidTimeRangeNoMaximum(start_time, end_time) ==
  IF start_time >= end_time THEN FALSE
  ELSE IF start_time < working_hours_start \/ end_time > working_hours_end
       THEN FALSE
  ELSE MinDuration <= end_time - start_time

IsValidTimeRange(start_time, end_time) ==
  IF start_time >= end_time THEN FALSE
  ELSE IF start_time < working_hours_start \/ end_time > working_hours_end
       THEN FALSE
  ELSE MinDuration <= end_time - start_time /\ end_time - start_time <= MaxDuration

\* the errors the availability loop appends for one owner
AvailabilityErrors(name, availability) ==
  FlatMap(availability, LAMBDA a :
    (IF ~IsValidDay(a.day_of_week)
       THEN << <<"Invalid day", name, a.day_of_week>> >> ELSE <<>>)
    \o
    (IF ~IsValidTimeRange(a.start_time, a.end_time)
       THEN << <<"Invalid time range", name, a.start_time, a.end_time>> >>
       ELSE <<>>))

ChildErrors(child) ==
  IF Len(child.departments) = 0
    THEN << <<"No departments assigned", child.name>> >>
  ELSE IF Len(child.availability) = 0
    THEN << <<"No availability schedule set", child.name>> >>
  ELSE
    LET total == SumSeq(child.departments, LAMBDA d : d.sessions_per_week)
    IN (IF total > MaxWeeklySessions
          THEN << <<"Too many weekly sessions required", child.name, total>> >>
          ELSE <<>>)
       \o AvailabilityErrors(child.name, child.availability)

\* validate_child_data: the error list (valid iff it is empty)
ValidateChildData(children_data) == FlatMap(children_data, ChildErrors)

\* TherapistErrors without the test for an empty availability
TherapistErrorsWindowsOnly(therapist) ==
  AvailabilityErrors(therapist.name, therapist.availability)

TherapistErrors(therapist) ==
  IF Len(therapist.availability) = 0
    THEN << <<"No availability schedule set", therapist.name>> >>
  ELSE AvailabilityErrors(therapist.name, therapist.availability)

\* validate_therapist_data: every department_coverage list holds at least
\* the therapist that created it, so the per-department loop adds nothing
ValidateTherapistData(therapists_data) ==
  FlatMap(therapists_data, TherapistErrors)
  \o (IF Len(therapists_data) = 0
        THEN << <<"No therapists available for any department">> >>
        ELSE <<>>)

\* _calculate_therapist_weekly_capacity: int(total_hours * 0.8)
TherapistWeeklyCapacity(availability) ==
  LET total_minutes == SumSeq(availability, LAMBDA a : a.end_time - a.start_time)
  IN (total_minutes * 4) \div (5 * 60)

\* the department ids of the needs of all children, each once, in the order
\* of first appearance (the key order of the dict sessions_by_department)
DemandDepartments(children_data) ==
  LET all == FlatMap(children_data, LAMBDA c :
                Map(c.departments, LAMBDA d : d.department_id))
      f[i \in 0..Len(all)] ==
        IF i = 0 THEN <<>>
        ELSE IF all[i] \in Range(f[i - 1]) THEN f[i - 1]
        ELSE Append(f[i - 1], all[i])
  IN f[Len(all)]

SessionsNeeded(children_data, dept) ==
  SumSeq(children_data, LAMBDA c :
    SumSeq(c.departments, LAMBDA d :
      IF d.department_id = dept THEN d.sessions_per_week ELSE 0))

TotalSessionsNeeded(children_data) ==
  SumSeq(children_data, LAMBDA c :
    SumSeq(c.departments, LAMBDA d : d.sessions_per_week))

CapacityOf(therapists_data, dept) ==
  SumSeq(therapists_data, LAMBDA t :
    IF t.department_id = dept THEN TherapistWeeklyCapacity(t.availability) ELSE 0)

TotalCapacity(therapists_data) ==
  SumSeq(therapists_data, LAMBDA t : TherapistWeeklyCapacity(t.availability))

\* validate_capacity_limits: [errors, warnings]; the call returns
\* (len(errors) == 0, errors + warnings)
ValidateCapacityLimits(children_data, therapists_data) ==
  LET depts == DemandDepartments(children_data)
      total_needed == TotalSessionsNeeded(children_data)
      total_capacity == TotalCapacity(therapists_data)
      overall ==
        IF total_needed > total_capacity
          THEN << <<"Insufficient therapist capacity", total_needed, total_capacity>> >>
          ELSE <<>>
      dept_errors == FlatMap(depts, LAMBDA d :
        IF SessionsNeeded(children_data, d) > CapacityOf(therapists_data, d)
          THEN << <<"Department sessions needed", d,
                    SessionsNeeded(children_data, d), CapacityOf(therapists_data, d)>> >>
          ELSE <<>>)
      dept_warnings == FlatMap(depts, LAMBDA d :
        IF SessionsNeeded(children_data, d) > CapacityOf(therapists_data, d)
          THEN <<>>
        ELSE IF 5 * SessionsNeeded(children_data, d) > 4 * CapacityOf(therapists_data, d)
          THEN << <<"High utilization", d,
                    SessionsNeeded(children_data, d), CapacityOf(therapists_data, d)>> >>
          ELSE <<>>)
  IN [errors |-> overall \o dept_errors, warnings |-> dept_warnings]

(***************************************************************************)
(* SmartTimetableEngine: the model builders.                               *)
(***************************************************************************)
SessionSlot(child, dept) ==
  [child_id |-> child.id, child_name |-> child.name,
   department_id |-> dept.department_id, department_name |-> dept.department_name,
   sessions_needed |-> 1,
   day_preferences |-> Map(child.availability, LAMBDA a : a.day_of_week),
   time_preferences |-> Map(child.availability, LAMBDA a : <<a.start_time, a.end_time>>)]

\* BuildSessionSlots without `for _ in range(dept['sessions_per_week'])`:
\* one slot per (child, department need)
BuildSessionSlotsOnePerNeed(children_data) ==
  FlatMap(children_data, LAMBDA child :
    FlatMap(child.departments, LAMBDA dept : <<SessionSlot(child, dept)>>))

\* _prepare_session_slots before the shuffle: range(sessions_per_week) slots
\* per (child, department need), in the order of the data
BuildSessionSlots(children_data) ==
  FlatMap(children_data, LAMBDA child :
    FlatMap(child.departments, LAMBDA dept :
      [k \in 1..dept.sessions_per_week |-> SessionSlot(child, dept)]))

\* the orders random.shuffle can leave a list in: every arrangement of its
\* elements.  The engine never seeds the process-wide generator, so nothing
\* the engine is given selects among them.
RECURSIVE Arrangements(_)
Arrangements(s) ==
  IF s = <<>> THEN {<<>>}
  ELSE UNION {
         {<<x>> \o rest :
            rest \in Arrangements(
              LET i == CHOOSE j \in 1..Len(s) : s[j] = x
              IN SubSeq(s, 1, i - 1) \o SubSeq(s, i + 1, Len(s)))}
         : x \in Range(s)}

\* the availability dict of a TherapistSlot: day -> the (start, end) pairs
\* of that day, in the order of the data
AvailabilityByDay(availability) ==
  [day \in {a.day_of_week : a \in Range(availability)} |->
     Map(SelectSeq(availability, LAMBDA a : a.day_of_week = day),
         LAMBDA a : <<a.start_time, a.end_time>>)]

\* dict.get(key, 0) and the read of a defaultdict(int)
Get(d, k) == IF k \in DOMAIN d THEN d[k] ELSE 0

\* Inc on a counter that is made anew: what was counted before is lost
IncAlone(d, k) == [x \in {k} |-> Get(d, k) + 1]

\* d[k] += 1 on a defaultdict(int)
Inc(d, k) == [x \in DOMAIN d \cup {k} |-> IF x = k THEN Get(d, k) + 1 ELSE d[x]]

TherapistSlot(therapist, previous_loads, current_loads) ==
  [therapist_id |-> therapist.id, therapist_name |-> therapist.name,
   department_id |-> therapist.department_id,
   department_name |-> therapist.department_name,
   availability |-> AvailabilityByDay(therapist.availability),
   current_load |-> Get(current_loads, therapist.id),
   fairness_score |-> Get(previous_loads, therapist.id) + Get(current_loads, therapist.id)]

PrepareTherapistSlots(therapists_data, previous_loads, current_loads) ==
  Map(therapists_data, LAMBDA t : TherapistSlot(t, previous_loads, current_loads))

\* GroupByDepartment with one list for all departments: every department
\* id leads to all the therapists
GroupAllTogether(slots) == [dept \in 1..2 |-> [i \in 1..Len(slots) |-> i]]

\* therapists_by_dept: department id -> the positions in therapist_slots of
\* its therapists (the lists hold the TherapistSlot objects themselves)
GroupByDepartment(slots) ==
  [dept \in {slots[i].department_id : i \in 1..Len(slots)} |->
     SelectSeq([i \in 1..Len(slots) |-> i], LAMBDA i : slots[i].department_id = dept)]

(***************************************************************************)
(* SmartTimetableEngine: the time window matcher and the slot search.      *)
(***************************************************************************)
DayOffset(day_name) ==
  CASE day_name = "Monday" -> 0
    [] day_name = "Tuesday" -> 1
    [] day_name = "Wednesday" -> 2
    [] day_name = "Thursday" -> 3
    [] day_name = "Friday" -> 4
    [] day_name = "Saturday" -> 5
    [] OTHER -> 0

\* GetDateForDay without the offset of the day: every day is the first
\* day of the week
GetDateForDayAlwaysFirst(week_starting, day_name) == week_starting

\* _get_date_for_day
GetDateForDay(week_starting, day_name) == week_starting + DayOffset(day_name)

\* TileSlots without the test `slot_end <= overlap_end`: the last slot may
\* run past the end of the overlap
RECURSIVE TileSlotsWithPartial(_, _)
TileSlotsWithPartial(current_time, overlap_end) ==
  IF current_time < overlap_end
    THEN LET slot_end == (current_time + SlotMinutes) % MinutesPerDay
         IN << <<current_time, slot_end>> >> \o TileSlotsWithPartial(slot_end, overlap_end)
    ELSE <<>>

\* the inner while loop of _find_overlapping_slots; adding an hour to a
\* datetime.time wraps at midnight
RECURSIVE TileSlots(_, _)
TileSlots(current_time, overlap_end) ==
  IF current_time < overlap_end
    THEN LET slot_end == (current_time + SlotMinutes) % MinutesPerDay
         IN (IF slot_end <= overlap_end THEN << <<current_time, slot_end>> >> ELSE <<>>)
            \o TileSlots(slot_end, overlap_end)
    ELSE <<>>

FindOverlappingSlots(therapist_times, child_times) ==
  FlatMap(therapist_times, LAMBDA t :
    FlatMap(child_times, LAMBDA c :
      LET overlap_start == Max(t[1], c[1])
          overlap_end == Min(t[2], c[2])
      IN IF overlap_start < overlap_end
           THEN TileSlots(overlap_start, overlap_end)
           ELSE <<>>))

IsTimeSlotFree(therapist_id, session_date, time_slot) == TRUE

\* CalculateSlotPriority with a fairness bonus that is never negative
CalculateSlotPriorityClamped(session_slot, therapist, time_slot, session_date, child_daily_sessions, therapist_daily_sessions) ==
  BasePriority
  + Max(0, FairnessTarget - therapist.current_load) * 2
  + (IF time_slot[1] < MorningEnd THEN 5 ELSE 0)
  + Max(0, DayDistributionTarget
           - Get(child_daily_sessions, <<session_slot.child_id, session_date>>))
  + Max(0, WorkloadTarget
           - Get(therapist_daily_sessions, <<therapist.therapist_id, session_date>>))

CalculateSlotPriority(session_slot, therapist, time_slot, session_date, child_daily_sessions, therapist_daily_sessions) ==
  BasePriority
  + (FairnessTarget - therapist.current_load) * 2
  + (IF time_slot[1] < MorningEnd THEN 5 ELSE 0)
  + Max(0, DayDistributionTarget
           - Get(child_daily_sessions, <<session_slot.child_id, session_date>>))
  + Max(0, WorkloadTarget
           - Get(therapist_daily_sessions, <<therapist.therapist_id, session_date>>))

\* ChildDayFull with the limit itself let through (> for >=)
ChildDayFullAbove(count) == count > max_sessions_per_child_per_day

\* the child's daily limit test of _find_best_time_slot
ChildDayFull(count) == count >= max_sessions_per_child_per_day

\* the therapist's daily limit test of _find_best_time_slot
TherapistDayFull(count) == count >= max_sessions_per_therapist_per_day

\* the windows of the child that _find_best_time_slot matches against the
\* therapist's windows of `day`
ChildTimes(session_slot, day) == session_slot.time_preferences

\* the list best_options of _find_best_time_slot, in the order it is built
BestOptions(session_slot, available_therapists, week_starting, child_daily_sessions, therapist_daily_sessions) ==
  FlatMap(session_slot.day_preferences, LAMBDA day :
    LET session_date == GetDateForDay(week_starting, day)
    IN IF ChildDayFull(Get(child_daily_sessions, <<session_slot.child_id, session_date>>))
         THEN <<>>
       ELSE FlatMap(available_therapists, LAMBDA therapist :
         IF day \notin DOMAIN therapist.availability THEN <<>>
         ELSE IF TherapistDayFull(Get(therapist_daily_sessions,
                                      <<therapist.therapist_id, session_date>>))
           THEN <<>>
         ELSE FlatMap(
           FindOverlappingSlots(therapist.availability[day],
                                ChildTimes(session_slot, day)),
           LAMBDA time_slot :
             IF IsTimeSlotFree(therapist.therapist_id, session_date, time_slot)
               THEN << [child_id |-> session_slot.child_id,
                        therapist_id |-> therapist.therapist_id,
                        department_id |-> session_slot.department_id,
                        date |-> session_date,
                        start_time |-> time_slot[1],
                        end_time |-> time_slot[2],
                        week_starting |-> week_starting,
                        priority_score |-> CalculateSlotPriority(
                           session_slot, therapist, time_slot, session_date,
                           child_daily_sessions, therapist_daily_sessions)] >>
               ELSE <<>>)))

\* FindBestTimeSlot with a sort that is not stable: of the options of
\* equal score the one appended last comes first
FindBestTimeSlotLastOfEquals(session_slot, available_therapists, week_starting, child_daily_sessions, therapist_daily_sessions) ==
  LET best_options == BestOptions(session_slot, available_therapists, week_starting,
                                  child_daily_sessions, therapist_daily_sessions)
  IN IF best_options # <<>>
       THEN <<StableSort(best_options,
                         LAMBDA a, b : a.priority_score > b.priority_score)[1]>>
       ELSE <<>>

\* _find_best_time_slot: <<the option>>, or <<>> for None
FindBestTimeSlot(session_slot, available_therapists, week_starting, child_daily_sessions, therapist_daily_sessions) ==
  LET best_options == BestOptions(session_slot, available_therapists, week_starting,
                                  child_daily_sessions, therapist_daily_sessions)
  IN IF best_options # <<>>
       THEN <<StableSort(best_options,
                         LAMBDA a, b : a.priority_score >= b.priority_score)[1]>>
       ELSE <<>>

(***************************************************************************)
(* TimetableDataHelper: the session store.                                 *)
(***************************************************************************)
\* the Session row made of one allocation dict (bulk_create_sessions copies
\* these seven keys and drops priority_score)
SessionRow(session_data) ==
  [child_id |-> session_data.child_id,
   therapist_id |-> session_data.therapist_id,
   department_id |-> session_data.department_id,
   date |-> session_data.date,
   start_time |-> session_data.start_time,
   end_time |-> session_data.end_time,
   week_starting |-> session_data.week_starting]

WeekSessions(sessions, week_starting) ==
  SelectSeq(sessions, LAMBDA s : s.week_starting = week_starting)

\* get_current_week_loads: therapist id -> number of sessions of the week
WeekLoads(sessions, week_starting) ==
  LET rows == WeekSessions(sessions, week_starting)
  IN [t \in {r.therapist_id : r \in Range(rows)} |->
        Len(SelectSeq(rows, LAMBDA r : r.therapist_id = t))]

PreviousWeekLoads(sessions, week_starting) ==
  WeekLoads(sessions, week_starting - DaysPerWeek)

CheckExistingSessions(sessions, week_starting) ==
  WeekSessions(sessions, week_starting) # <<>>

\* clear_week_sessions: the rows that remain
ClearWeekSessions(sessions, week_starting) ==
  SelectSeq(sessions, LAMBDA s : s.week_starting # week_starting)

\* the (therapist_id, date) keys of a batch in the order of first
\* appearance (the key order of the dict therapist_schedule)
ScheduleKeys(sessions_data) ==
  LET f[i \in 0..Len(sessions_data)] ==
        IF i = 0 THEN <<>>
        ELSE LET key == <<sessions_data[i].therapist_id, sessions_data[i].date>>
             IN IF key \in Range(f[i - 1]) THEN f[i - 1] ELSE Append(f[i - 1], key)
  IN f[Len(sessions_data)]

\* Overlapping with >= for >: sessions that touch count as overlapping
OverlappingOrTouching(current_end, next_start) == current_end >= next_start

\* the test of _check_time_conflicts on two neighbours of a sorted group
Overlapping(current_end, next_start) == current_end > next_start

\* _check_time_conflicts: the conflict messages
CheckTimeConflicts(sessions_data) ==
  FlatMap(ScheduleKeys(sessions_data), LAMBDA key :
    LET time_slots ==
          StableSort(
            SelectSeq(sessions_data,
                      LAMBDA s : <<s.therapist_id, s.date>> = key),
            LAMBDA a, b : a.start_time <= b.start_time)
    IN FlatMap([i \in 1..(Len(time_slots) - 1) |-> i], LAMBDA i :
         IF Overlapping(time_slots[i].end_time, time_slots[i + 1].start_time)
           THEN << <<"Therapist has overlapping sessions", key[1], key[2],
                     time_slots[i].start_time, time_slots[i].end_time,
                     time_slots[i + 1].start_time, time_slots[i + 1].end_time>> >>
           ELSE <<>>))

\* the rows of `table` whose id is in the list `ids`
FetchByIds(table, ids) == SelectSeq(table, LAMBDA row : row.id \in Range(ids))

(***************************************************************************)
(* The data the runs work on.                                              *)
(***************************************************************************)
Mon8_10 == Win("Monday", 480, 600)
Mon9_11 == Win("Monday", 540, 660)
Mon10_12 == Win("Monday", 600, 720)
Mon12_14 == Win("Monday", 720, 840)
Mon13_15 == Win("Monday", 780, 900)
Mon14_16 == Win("Monday", 840, 960)
Tue9_11 == Win("Tuesday", 540, 660)
Tue13_15 == Win("Tuesday", 780, 900)
Wed9_11 == Win("Wednesday", 540, 660)
Thu9_11 == Win("Thursday", 540, 660)

\* two children of one department, both free on Monday morning only
ChildrenSameDay(n) ==
  << ChildRow(1, <<Need(1, n)>>, <<Mon9_11>>),
     ChildRow(2, <<Need(1, 4)>>, <<Mon9_11>>) >>

\* a child free on Monday morning and Tuesday afternoon, and a child of a
\* second department
ChildrenTwoDays(n) ==
  << ChildRow(1, <<Need(1, n)>>, <<Mon9_11, Tue13_15>>),
     ChildRow(2, <<Need(2, 1)>>, <<Tue9_11>>) >>

ChildTables ==
  {ChildrenSameDay(n) : n \in 0..MaxNeed} \cup {ChildrenTwoDays(n) : n \in 0..MaxNeed}

\* two therapists of department 1 with the same two windows
TherapistsTwin ==
  << TherapistRow(1, 1, <<Mon9_11, Tue9_11>>),
     TherapistRow(2, 1, <<Mon9_11, Tue9_11>>) >>

\* a therapist of department 1 who works the whole Monday
TherapistsFullDay ==
  << TherapistRow(1, 1, <<Mon8_10, Mon10_12, Mon12_14, Mon14_16,
                          Tue9_11, Wed9_11, Thu9_11>>),
     TherapistRow(2, 2, <<Tue9_11>>) >>

\* a therapist of department 1 who works on Monday afternoon only
TherapistsAfternoon ==
  << TherapistRow(1, 1, <<Mon13_15>>),
     TherapistRow(2, 2, <<Tue9_11, Wed9_11>>) >>

TherapistTables == {TherapistsTwin, TherapistsFullDay, TherapistsAfternoon}

\* windows of three hours, as in Scenario 1 of the specification
Mon9_12 == Win("Monday", 540, 720)
Wed9_12 == Win("Wednesday", 540, 720)

\* windows the validator turns down: a day that is no working day, an end
\* before the start, a start before 08:00, an end after 16:00, 15 minutes,
\* and three hours
Sun9_11 == Win("Sunday", 540, 660)
Mon11_9 == Win("Monday", 660, 540)
Mon7_9 == Win("Monday", 420, 540)
Mon15_17 == Win("Monday", 900, 1020)
Mon9_915 == Win("Monday", 540, 555)
BadWindows == {Sun9_11, Mon11_9, Mon7_9, Mon15_17, Mon9_915, Mon9_12}

\* Scenario 1: one child needing 2 sessions, free on Monday and Wednesday
\* 09:00-12:00, and two therapists of its department, one for each day
ChildrenScenario1 == << ChildRow(1, <<Need(1, 2)>>, <<Mon9_12, Wed9_12>>) >>
TherapistsScenario1 ==
  << TherapistRow(1, 1, <<Mon9_12>>), TherapistRow(2, 1, <<Wed9_12>>) >>

\* the same with windows of two hours
ChildrenTwoMornings == << ChildRow(1, <<Need(1, 2)>>, <<Mon9_11, Wed9_11>>) >>
TherapistsTwoMornings ==
  << TherapistRow(1, 1, <<Mon9_11>>), TherapistRow(2, 1, <<Wed9_11>>) >>

\* Scenario 4: one child needing 3 sessions, and the only therapist of its
\* department with no availability window
ChildrenScenario4 == << ChildRow(1, <<Need(1, 3)>>, <<Mon9_11>>) >>
TherapistsScenario4 == << TherapistRow(1, 1, <<>>) >>

\* tables with one child that has no department, or no availability, or a
\* window the validator turns down
ChildrenFaulty ==
  {<< ChildRow(1, <<>>, <<Mon9_11>>) >>, << ChildRow(1, <<Need(1, 1)>>, <<>>) >>}
  \cup {<< ChildRow(1, <<Need(1, 1)>>, <<Mon9_11, w>>) >> : w \in BadWindows}

\* tables with a therapist that has a window the validator turns down
TherapistsFaulty ==
  {<< TherapistRow(1, 1, <<Mon9_11, w>>), TherapistRow(2, 1, <<Mon9_11, Tue9_11>>) >> :
     w \in BadWindows}

\* the pairs of tables of the scenarios and of the faulty records
ScenarioTables ==
  {<<ChildrenScenario1, TherapistsScenario1>>,
   <<ChildrenTwoMornings, TherapistsTwoMornings>>,
   <<ChildrenScenario4, TherapistsScenario4>>}
  \cup {<<c, TherapistsTwin>> : c \in ChildrenFaulty}
  \cup {<<ChildrenSameDay(1), t>> : t \in TherapistsFaulty}

\* week_starting of a request: two Mondays a week apart, and a Tuesday
RequestWeeks == {0, 1, 7}
RequestChildren == {<<>>, <<1>>, <<1, 2>>}
RequestTherapists == {<<>>, <<1>>, <<1, 2>>}

(***************************************************************************)
(* GenerationResult.                                                       *)
(***************************************************************************)
GenerationResult(success, sessions_created, errors, warnings, timetable_data) ==
  [success |-> success, sessions_created |-> sessions_created,
   errors |-> errors, warnings |-> warnings, timetable_data |-> timetable_data]

NoData == [sessions |-> <<>>]

\* ValidateGenerationRequest with the checks in another order: the Monday
\* check, the two emptiness checks, then the existing sessions
ValidateGenerationRequestMondayFirst(sessions, week_starting, active_children, active_therapists, regenerate_existing) ==
  IF week_starting % DaysPerWeek # 0
    THEN GenerationResult(FALSE, 0, << <<"Week must start on Monday">> >>, <<>>, NoData)
  ELSE IF active_children = <<>>
    THEN GenerationResult(FALSE, 0, << <<"No children selected">> >>, <<>>, NoData)
  ELSE IF active_therapists = <<>>
    THEN GenerationResult(FALSE, 0, << <<"No therapists selected">> >>, <<>>, NoData)
  ELSE IF ~regenerate_existing /\ CheckExistingSessions(sessions, week_starting)
    THEN GenerationResult(FALSE, 0, << <<"Sessions already exist for this week">> >>,
                          <<>>, NoData)
  ELSE GenerationResult(TRUE, 0, <<>>, <<>>, NoData)

\* _validate_generation_request
ValidateGenerationRequest(sessions, week_starting, active_children, active_therapists, regenerate_existing) ==
  IF ~regenerate_existing /\ CheckExistingSessions(sessions, week_starting)
    THEN GenerationResult(FALSE, 0, << <<"Sessions already exist for this week">> >>,
                          <<>>, NoData)
  ELSE IF active_children = <<>>
    THEN GenerationResult(FALSE, 0, << <<"No children selected">> >>, <<>>, NoData)
  ELSE IF active_therapists = <<>>
    THEN GenerationResult(FALSE, 0, << <<"No therapists selected">> >>, <<>>, NoData)
  ELSE IF week_starting % DaysPerWeek # 0
    THEN GenerationResult(FALSE, 0, << <<"Week must start on Monday">> >>, <<>>, NoData)
  ELSE GenerationResult(TRUE, 0, <<>>, <<>>, NoData)

\* ValidateInputData with a capacity shortfall passed on as a warning
ValidateInputDataLenient(children_data, therapists_data) ==
  LET children_errors == ValidateChildData(children_data)
      therapist_errors == ValidateTherapistData(therapists_data)
      capacity == ValidateCapacityLimits(children_data, therapists_data)
  IN IF children_errors # <<>>
       THEN GenerationResult(FALSE, 0, children_errors, <<>>, NoData)
     ELSE IF therapist_errors # <<>>
       THEN GenerationResult(FALSE, 0, therapist_errors, <<>>, NoData)
     ELSE GenerationResult(TRUE, 0, <<>>, capacity.errors \o capacity.warnings, NoData)

\* _validate_input_data
ValidateInputData(children_data, therapists_data) ==
  LET children_errors == ValidateChildData(children_data)
      therapist_errors == ValidateTherapistData(therapists_data)
      capacity == ValidateCapacityLimits(children_data, therapists_data)
  IN IF children_errors # <<>>
       THEN GenerationResult(FALSE, 0, children_errors, <<>>, NoData)
     ELSE IF therapist_errors # <<>>
       THEN GenerationResult(FALSE, 0, therapist_errors, <<>>, NoData)
     ELSE IF capacity.errors # <<>>
       THEN GenerationResult(FALSE, 0, capacity.errors \o capacity.warnings, <<>>, NoData)
     ELSE GenerationResult(TRUE, 0, <<>>, capacity.errors \o capacity.warnings, NoData)

(***************************************************************************)
(* The state: the database, and one generation run at a time               *)
(* (generate_weekly_timetable is synchronous).                             *)
(***************************************************************************)
VARIABLES
  children_table,           \* the children the data helper can fetch
  therapists_table,         \* the therapists the data helper can fetch
  store,                    \* the sessions table, in insertion order
  pc,                       \* the stage the run is at
  req,                      \* the arguments of the run
  result,                   \* <<the GenerationResult returned>>, <<>> before
  calls,                    \* the store operations the run has made
  validation_warnings,      \* validation_result.warnings
  created_count,            \* what bulk_create_sessions returned
  children_data,
  therapists_data,
  data_warnings,            \* data_validation.warnings
  session_slots,            \* the shuffled demands
  position,                 \* the number of demands the loop has visited
  therapist_slots,
  therapists_by_dept,
  child_daily_sessions,
  therapist_daily_sessions,
  allocated_sessions,
  unallocated_sessions,
  allocation_result,        \* <<the result of the allocation stage>>, <<>> before
  replay,                   \* the first allocation made, when it is kept for comparison
  db,                       \* the tables the child and therapist routes read and write
  cache,                    \* the Redis keys of the child and therapist data
  response,                 \* <<the last response of a route>>, <<>> before
  available,                \* RedisHelper.available: the ping at construction succeeded
  parked,                   \* the locals of a second call of generate_weekly_timetable
                            \* while the thread of the first one runs
  generator,                \* the generator of the module `random`, which the process
                            \* has one of: the place it is at in its sequence
  arguments,                \* the arguments of a direct call of one helper
  returned                  \* <<what the call returned>>, <<>> before

store_vars == <<children_table, therapists_table, store>>
run_vars == <<pc, req, result, calls, validation_warnings, created_count>>
data_vars == <<children_data, therapists_data, data_warnings>>
alloc_vars ==
  <<session_slots, position, therapist_slots, therapists_by_dept,
    child_daily_sessions, therapist_daily_sessions,
    allocated_sessions, unallocated_sessions, allocation_result>>
cache_vars == <<db, cache, response, available>>
unit_vars == <<arguments, returned>>
vars ==
  <<store_vars, run_vars, data_vars, alloc_vars, replay, cache_vars, parked, generator,
    unit_vars>>

\* `cleared` holds the rows clear_week_sessions deleted, `rows` the number
\* of rows handed to bulk_create_sessions, `raised` the exceptions that
\* reached the except clause of generate_weekly_timetable
NoCalls ==
  [clear |-> 0, fetch |-> 0, loads |-> 0, bulk |-> 0, overview |-> 0,
   cleared |-> <<>>, rows |-> 0, raised |-> 0]
EmptyDict == [k \in {} |-> 0]

\* the ids, names and values the requests to the record routes carry
ChildIds == {1}
TherapistIds == {1}
AvailabilityIds == {1}
ChildNames == {"Ann", "Ben"}
TherapistNames == {"Tom"}
RouteDepartments == {1}
RouteSessionsPerWeek == {1, 2}
RouteWindows == {Mon9_11}

\* the keys RedisHelper builds for the child and therapist data
ChildrenKey == <<"children:active">>
TherapistsKey == <<"therapists:active">>
ChildAvailabilityKey(child_id) == <<"child:availability", child_id>>
TherapistAvailabilityKey(therapist_id) == <<"therapist:availability", therapist_id>>
CacheKeys ==
  {ChildrenKey, TherapistsKey}
    \cup {ChildAvailabilityKey(i) : i \in ChildIds}
    \cup {TherapistAvailabilityKey(i) : i \in TherapistIds}

\* the weeks and dates the requests to the session routes carry, and the
\* keys RedisHelper builds for the timetable and the reports of them
SessionWeeks == {0}
SessionDates == {0, 1}
TimetableKey(week_starting) == <<"timetable:week", week_starting>>
WeeklyReportKey(week_starting) == <<"report:week", week_starting>>
DailyReportKey(report_date) == <<"report:daily", report_date>>
TimetableCacheKeys ==
  {TimetableKey(w) : w \in SessionWeeks}
    \cup {WeeklyReportKey(w) : w \in SessionWeeks}
    \cup {DailyReportKey(d) : d \in SessionDates}

\* no key is set: redis_client.get gives None, here <<>>
EmptyCache == [k \in CacheKeys \cup TimetableCacheKeys |-> <<>>]
EmptyTables ==
  [children |-> {}, child_departments |-> {}, child_availability |-> {},
   therapists |-> {}, therapist_availability |-> {}]

\* the record routes have not been called
InitRoutes ==
  /\ db = EmptyTables
  /\ cache = EmptyCache
  /\ response = <<>>

InitRun ==
  /\ pc = "idle"
  /\ req = [week_starting |-> 0, active_children |-> <<>>,
            active_therapists |-> <<>>, regenerate_existing |-> FALSE]
  /\ result = <<>>
  /\ calls = NoCalls
  /\ validation_warnings = <<>>
  /\ created_count = 0
  /\ children_data = <<>>
  /\ therapists_data = <<>>
  /\ data_warnings = <<>>
  /\ session_slots = <<>>
  /\ position = 0
  /\ therapist_slots = <<>>
  /\ therapists_by_dept = EmptyDict
  /\ child_daily_sessions = EmptyDict
  /\ therapist_daily_sessions = EmptyDict
  /\ allocated_sessions = <<>>
  /\ unallocated_sessions = <<>>
  /\ allocation_result = <<>>

\* the locals of a call that has not been made, as InitRun has them
IdleRun ==
  [pc |-> "idle",
   req |-> [week_starting |-> 0, active_children |-> <<>>,
            active_therapists |-> <<>>, regenerate_existing |-> FALSE],
   result |-> <<>>, calls |-> NoCalls, validation_warnings |-> <<>>,
   created_count |-> 0, children_data |-> <<>>, therapists_data |-> <<>>,
   data_warnings |-> <<>>, session_slots |-> <<>>, position |-> 0,
   therapist_slots |-> <<>>, therapists_by_dept |-> EmptyDict,
   child_daily_sessions |-> EmptyDict, therapist_daily_sessions |-> EmptyDict,
   allocated_sessions |-> <<>>, unallocated_sessions |-> <<>>,
   allocation_result |-> <<>>]

Init ==
  /\ \/ /\ children_table \in ChildTables
        /\ therapists_table \in TherapistTables
     \/ \E tables \in ScenarioTables :
          /\ children_table = tables[1]
          /\ therapists_table = tables[2]
  /\ store = <<>>
  /\ InitRun
  /\ replay = [on |-> FALSE]
  /\ InitRoutes
  /\ parked = IdleRun
  /\ generator = [on |-> FALSE]
  /\ arguments = <<>>
  /\ returned = <<>>
  /\ available = TRUE

(***************************************************************************)
(* generate_weekly_timetable, stage by stage.                              *)
(***************************************************************************)
\* the locals of a call that has not run yet, or has returned
FreshLocals ==
  /\ validation_warnings' = <<>>
  /\ created_count' = 0
  /\ children_data' = <<>>
  /\ therapists_data' = <<>>
  /\ data_warnings' = <<>>
  /\ session_slots' = <<>>
  /\ position' = 0
  /\ therapist_slots' = <<>>
  /\ therapists_by_dept' = EmptyDict
  /\ child_daily_sessions' = EmptyDict
  /\ therapist_daily_sessions' = EmptyDict
  /\ allocated_sessions' = <<>>
  /\ unallocated_sessions' = <<>>
  /\ allocation_result' = <<>>

\* return generation_result: the call ends and its locals are gone
Return(generation_result) ==
  /\ pc' = "done"
  /\ result' = <<generation_result>>
  /\ FreshLocals

\* AfterRequestValidation with the clearing of step 2 ahead of the return
\* of step 1
AfterRequestValidationClearFirst(validation_result, regenerate_existing) ==
  IF regenerate_existing THEN "clear"
  ELSE IF ~validation_result.success THEN "done"
  ELSE "fetch"

\* where the run goes after step 1
AfterRequestValidation(validation_result, regenerate_existing) ==
  IF ~validation_result.success THEN "done"
  ELSE IF regenerate_existing THEN "clear"
  ELSE "fetch"

\* a call of generate_weekly_timetable and its step 1:
\* _validate_generation_request, and the return on its failure (a
\* successful validation_result has no warnings yet)
StartRun(week_starting, active_children, active_therapists, regenerate_existing) ==
  /\ pc \in {"idle", "done"}
  /\ req' = [week_starting |-> week_starting, active_children |-> active_children,
             active_therapists |-> active_therapists,
             regenerate_existing |-> regenerate_existing]
  /\ calls' = NoCalls
  /\ LET validation_result ==
           ValidateGenerationRequest(store, week_starting, active_children,
                                     active_therapists, regenerate_existing)
         next == AfterRequestValidation(validation_result, regenerate_existing)
     IN IF next = "done"
          THEN Return(validation_result)
          ELSE /\ pc' = next
               /\ result' = <<>>
               /\ FreshLocals
  /\ UNCHANGED <<unit_vars, cache_vars, parked, generator, store_vars, replay>>

\* step 2: clear_week_sessions
ClearWeek ==
  /\ pc = "clear"
  /\ LET cleared_count == Len(WeekSessions(store, req.week_starting))
     IN /\ store' = ClearWeekSessions(store, req.week_starting)
        /\ validation_warnings' =
             IF cleared_count > 0
               THEN Append(validation_warnings, <<"Cleared existing sessions", cleared_count>>)
               ELSE validation_warnings
  /\ calls' = [calls EXCEPT !.clear = @ + 1,
                            !.cleared = WeekSessions(store, req.week_starting)]
  /\ pc' = "fetch"
  /\ UNCHANGED <<unit_vars, cache_vars, parked, generator, children_table, therapists_table, req, result, created_count,
                 data_vars, alloc_vars, replay>>

\* step 3: the two fetches and _validate_input_data
FetchAndValidateData ==
  /\ pc = "fetch"
  /\ LET children == FetchByIds(children_table, req.active_children)
         therapists == FetchByIds(therapists_table, req.active_therapists)
         data_validation == ValidateInputData(children, therapists)
     IN IF data_validation.success
          THEN /\ children_data' = children
               /\ therapists_data' = therapists
               /\ data_warnings' = data_validation.warnings
               /\ pc' = "prepare"
               /\ UNCHANGED <<result, validation_warnings, created_count, alloc_vars>>
          ELSE Return(data_validation)
  /\ calls' = [calls EXCEPT !.fetch = @ + 1]
  /\ UNCHANGED <<unit_vars, cache_vars, parked, generator, store_vars, req, replay>>

\* the numbers random.shuffle draws to shuffle `s`: one for each element
\* but the first
ShuffleDraws(s) == IF Len(s) = 0 THEN 0 ELSE Len(s) - 1

\* the places of the sequence of the generator that are told apart
GeneratorPlaces == {0, 1, 2}

\* the generator after `n` draws; the place is followed only where `on`
\* says so, and which numbers are drawn is left open, the generator being
\* seeded from the system when the module is loaded
Draw(g, n) ==
  IF g.on THEN [g EXCEPT !.place = (@ + n) % Cardinality(GeneratorPlaces)] ELSE g

\* step 4: _prepare_session_slots (with its shuffle), _prepare_therapist_slots
\* and the set-up of _allocate_sessions_intelligently
PrepareSlots ==
  /\ pc = "prepare"
  /\ session_slots' \in Arrangements(BuildSessionSlots(children_data))
  /\ LET slots == PrepareTherapistSlots(
                    therapists_data,
                    PreviousWeekLoads(store, req.week_starting),
                    WeekLoads(store, req.week_starting))
     IN /\ therapist_slots' = slots
        /\ therapists_by_dept' = GroupByDepartment(slots)
  /\ position' = 0
  /\ child_daily_sessions' = EmptyDict
  /\ therapist_daily_sessions' = EmptyDict
  /\ allocated_sessions' = <<>>
  /\ unallocated_sessions' = <<>>
  /\ allocation_result' = <<>>
  /\ generator' = Draw(generator, ShuffleDraws(BuildSessionSlots(children_data)))
  /\ calls' = [calls EXCEPT !.loads = @ + 1]
  /\ pc' = "allocate"
  /\ UNCHANGED <<unit_vars, cache_vars, parked, store_vars, req, result, validation_warnings,
                 created_count, data_vars, replay>>

\* CommitLoad without `therapist.fairness_score += 1`
CommitLoadOnly(slots, therapist_id) ==
  LET hits == {i \in 1..Len(slots) : slots[i].therapist_id = therapist_id}
  IN IF hits = {} THEN slots
     ELSE LET i == CHOOSE j \in hits : \A k \in hits : j <= k
          IN [slots EXCEPT ![i].current_load = @ + 1]

\* the commit of best_allocation to the therapist it names: the first
\* TherapistSlot with that id gets one more session
CommitLoad(slots, therapist_id) ==
  LET hits == {i \in 1..Len(slots) : slots[i].therapist_id = therapist_id}
  IN IF hits = {} THEN slots
     ELSE LET i == CHOOSE j \in hits : \A k \in hits : j <= k
          IN [slots EXCEPT ![i].current_load = @ + 1, ![i].fairness_score = @ + 1]

\* FairnessOrder by the current load alone
FairnessOrderByLoad(a, b) == a.current_load <= b.current_load

\* key(a) <= key(b) for the sort key (fairness_score, current_load)
FairnessOrder(a, b) ==
  \/ a.fairness_score < b.fairness_score
  \/ /\ a.fairness_score = b.fairness_score
     /\ a.current_load <= b.current_load

\* AllocateNext as a loop that steps over a demand: the index goes up by two
\* and nothing is recorded of either demand
AllocateNextSkipping ==
  /\ pc = "allocate"
  /\ position < Len(session_slots)
  /\ position' = position + 2
  /\ UNCHANGED <<therapist_slots, therapists_by_dept, child_daily_sessions,
                 therapist_daily_sessions, allocated_sessions, unallocated_sessions>>
  /\ UNCHANGED <<unit_vars, cache_vars, parked, generator, store_vars, run_vars, data_vars, session_slots, allocation_result, replay>>

\* one iteration of the allocation loop
AllocateNext ==
  /\ pc = "allocate"
  /\ position < Len(session_slots)
  /\ position' = position + 1
  /\ LET session_slot == session_slots[position + 1]
         dept == session_slot.department_id
         available_therapists ==
           IF dept \in DOMAIN therapists_by_dept THEN therapists_by_dept[dept] ELSE <<>>
     IN IF available_therapists = <<>>
          THEN /\ unallocated_sessions' =
                    Append(unallocated_sessions,
                           <<"No therapists available for", session_slot.department_name>>)
               /\ UNCHANGED <<therapist_slots, therapists_by_dept, child_daily_sessions,
                              therapist_daily_sessions, allocated_sessions>>
          ELSE
            LET sorted ==
                  StableSort(available_therapists, LAMBDA a, b :
                    FairnessOrder(therapist_slots[a], therapist_slots[b]))
                best_allocation ==
                  FindBestTimeSlot(session_slot,
                                   Map(sorted, LAMBDA i : therapist_slots[i]),
                                   req.week_starting,
                                   child_daily_sessions, therapist_daily_sessions)
            IN /\ therapists_by_dept' = [therapists_by_dept EXCEPT ![dept] = sorted]
               /\ IF best_allocation # <<>>
                    THEN LET best == best_allocation[1]
                         IN /\ allocated_sessions' = Append(allocated_sessions, best)
                            /\ child_daily_sessions' =
                                 Inc(child_daily_sessions, <<session_slot.child_id, best.date>>)
                            /\ therapist_daily_sessions' =
                                 Inc(therapist_daily_sessions, <<best.therapist_id, best.date>>)
                            /\ therapist_slots' = CommitLoad(therapist_slots, best.therapist_id)
                            /\ UNCHANGED unallocated_sessions
                    ELSE /\ unallocated_sessions' =
                              Append(unallocated_sessions,
                                     <<"Could not allocate session for",
                                       session_slot.child_name, session_slot.department_name>>)
                         /\ UNCHANGED <<therapist_slots, child_daily_sessions,
                                        therapist_daily_sessions, allocated_sessions>>
  /\ UNCHANGED <<unit_vars, cache_vars, parked, generator, store_vars, run_vars, data_vars, session_slots, allocation_result, replay>>

\* AllocationResult failing when a demand was left unplaced
AllocationResultStrict(allocated, unallocated) ==
  GenerationResult(unallocated = <<>>, Len(allocated), unallocated, <<>>,
                   [sessions |-> allocated])

\* the return of _allocate_sessions_intelligently
AllocationResult(allocated, unallocated) ==
  GenerationResult(TRUE, Len(allocated), <<>>, unallocated, [sessions |-> allocated])

\* the key of an allocation: what the data helper gave the run
ReplayKey ==
  [req |-> req,
   previous_loads |-> PreviousWeekLoads(store, req.week_starting),
   current_loads |-> WeekLoads(store, req.week_starting)]

\* the end of the allocation loop
FinishAllocation ==
  /\ pc = "allocate"
  /\ position = Len(session_slots)
  /\ LET allocation == AllocationResult(allocated_sessions, unallocated_sessions)
     IN IF ~allocation.success
          THEN Return(allocation)
          ELSE /\ allocation_result' = <<allocation>>
               /\ pc' = "persist"
               /\ UNCHANGED <<result, validation_warnings, created_count,
                              data_vars, session_slots, position, therapist_slots,
                              therapists_by_dept, child_daily_sessions,
                              therapist_daily_sessions,
                              allocated_sessions, unallocated_sessions>>
  /\ replay' = IF replay.on /\ "key" \notin DOMAIN replay
                 THEN [on |-> TRUE, key |-> ReplayKey, sessions |-> allocated_sessions]
                 ELSE replay
  /\ UNCHANGED <<unit_vars, cache_vars, parked, generator, store_vars, req, calls>>

\* BulkCreateSessions without the conflict check
BulkCreateSessionsUnchecked(sessions, sessions_data, db_fails) ==
  IF db_fails
    THEN [created_count |-> 0,
          errors |-> << <<"Database error during bulk creation">> >>,
          sessions |-> sessions]
  ELSE [created_count |-> Len(sessions_data), errors |-> <<>>,
        sessions |-> sessions \o Map(sessions_data, SessionRow)]

\* BulkCreateSessions without the rollback: the rows saved before the
\* error stay in the table
BulkCreateSessionsNoRollback(sessions, sessions_data, db_fails) ==
  LET conflict_check == CheckTimeConflicts(sessions_data)
  IN IF conflict_check # <<>>
       THEN [created_count |-> 0, errors |-> conflict_check, sessions |-> sessions]
     ELSE IF db_fails
       THEN [created_count |-> 0,
             errors |-> << <<"Database error during bulk creation">> >>,
             sessions |-> sessions \o Map(SubSeq(sessions_data, 1, Min(1, Len(sessions_data))), SessionRow)]
     ELSE [created_count |-> Len(sessions_data), errors |-> <<>>,
           sessions |-> sessions \o Map(sessions_data, SessionRow)]

\* bulk_create_sessions: [created_count, errors, sessions], `sessions` being
\* the table afterwards; db_fails says whether the insert or its commit raises
BulkCreateSessions(sessions, sessions_data, db_fails) ==
  LET conflict_check == CheckTimeConflicts(sessions_data)
  IN IF conflict_check # <<>>
       THEN [created_count |-> 0, errors |-> conflict_check, sessions |-> sessions]
     ELSE IF db_fails
       THEN [created_count |-> 0,
             errors |-> << <<"Database error during bulk creation">> >>,
             sessions |-> sessions]
     ELSE [created_count |-> Len(sessions_data), errors |-> <<>>,
           sessions |-> sessions \o Map(sessions_data, SessionRow)]

\* PersistSessions without the return on creation_errors: the run goes on
\* to the overview whatever bulk_create_sessions returned
PersistSessionsIgnoringErrors(db_fails) ==
  /\ pc = "persist"
  /\ LET created == BulkCreateSessions(store, allocation_result[1].timetable_data.sessions,
                                       db_fails)
     IN /\ store' = created.sessions
        /\ pc' = "overview"
        /\ created_count' = created.created_count
        /\ UNCHANGED <<result, validation_warnings, data_vars, alloc_vars>>
  /\ calls' = [calls EXCEPT !.bulk = @ + 1,
                            !.rows = Len(allocation_result[1].timetable_data.sessions)]
  /\ UNCHANGED <<unit_vars, cache_vars, parked, generator, children_table, therapists_table, req, replay>>

\* step 6: bulk_create_sessions and the return on its errors
PersistSessions(db_fails) ==
  /\ pc = "persist"
  /\ LET created == BulkCreateSessions(store, allocation_result[1].timetable_data.sessions,
                                       db_fails)
     IN /\ store' = created.sessions
        /\ IF created.errors # <<>>
             THEN Return(GenerationResult(FALSE, 0, created.errors, <<>>, NoData))
             ELSE /\ pc' = "overview"
                  /\ created_count' = created.created_count
                  /\ UNCHANGED <<result, validation_warnings, data_vars, alloc_vars>>
  /\ calls' = [calls EXCEPT !.bulk = @ + 1,
                            !.rows = Len(allocation_result[1].timetable_data.sessions)]
  /\ UNCHANGED <<unit_vars, cache_vars, parked, generator, children_table, therapists_table, req, replay>>

\* get_week_overview_optimized, without the display names
WeekOverview(sessions, week_starting) ==
  [week_starting |-> week_starting,
   sessions |-> WeekSessions(sessions, week_starting),
   therapist_loads |-> WeekLoads(sessions, week_starting),
   total_sessions |-> Len(WeekSessions(sessions, week_starting))]

\* step 7: the overview and the successful return
ReturnOverview ==
  /\ pc = "overview"
  /\ Return(GenerationResult(
              TRUE, created_count,
              <<>>, validation_warnings \o allocation_result[1].warnings,
              WeekOverview(store, req.week_starting)))
  /\ calls' = [calls EXCEPT !.overview = @ + 1]
  /\ UNCHANGED <<unit_vars, cache_vars, parked, generator, store_vars, req, replay>>

Next ==
  \/ \E w \in RequestWeeks, c \in RequestChildren, t \in RequestTherapists,
        r \in BOOLEAN : StartRun(w, c, t, r)
  \/ ClearWeek
  \/ FetchAndValidateData
  \/ PrepareSlots
  \/ AllocateNext
  \/ FinishAllocation
  \/ \E db_fails \in BOOLEAN : PersistSessions(db_fails)
  \/ ReturnOverview

Spec == Init /\ [][Next]_vars

(***************************************************************************)
(* The same runs when the collaborators may raise.                         *)
(***************************************************************************)
\* what the except clause of generate_weekly_timetable returns
EngineErrorResult ==
  GenerationResult(FALSE, 0, << <<"Engine error">> >>, <<>>, NoData)

\* EngineFault without the except clause: the call ends with no result
EngineFaultEscapes ==
  /\ pc \in {"clear", "fetch", "prepare", "allocate", "persist", "overview"}
  /\ pc' = "done"
  /\ result' = <<>>
  /\ FreshLocals
  /\ calls' = [calls EXCEPT !.raised = @ + 1]
  /\ UNCHANGED <<unit_vars, cache_vars, parked, generator, store_vars, req, replay>>

\* the collaborator call or the internal step of the stage the run is at
\* raises before it has changed the table; the except clause returns
EngineFault ==
  /\ pc \in {"clear", "fetch", "prepare", "allocate", "persist", "overview"}
  /\ Return(EngineErrorResult)
  /\ calls' = [calls EXCEPT !.raised = @ + 1]
  /\ UNCHANGED <<unit_vars, cache_vars, parked, generator, store_vars, req, replay>>

\* a call whose step 1 raises: check_existing_sessions, which step 1 calls
\* when regenerate_existing is false
StartRunFault(week_starting, active_children, active_therapists) ==
  /\ pc \in {"idle", "done"}
  /\ req' = [week_starting |-> week_starting, active_children |-> active_children,
             active_therapists |-> active_therapists,
             regenerate_existing |-> FALSE]
  /\ calls' = [NoCalls EXCEPT !.raised = 1]
  /\ Return(EngineErrorResult)
  /\ UNCHANGED <<unit_vars, cache_vars, parked, generator, store_vars, replay>>

NextFaults ==
  \/ Next
  \/ EngineFault
  \/ \E w \in RequestWeeks, c \in RequestChildren, t \in RequestTherapists :
        StartRunFault(w, c, t)

SpecFaults == Init /\ [][NextFaults]_vars

\* the same runs, with the first allocation kept to compare later ones with
InitReplay ==
  /\ children_table \in {ChildrenSameDay(n) : n \in 0..1}
  /\ therapists_table = TherapistsTwin
  /\ store = <<>>
  /\ InitRun
  /\ replay = [on |-> TRUE]
  /\ InitRoutes
  /\ parked = IdleRun
  /\ generator = [on |-> FALSE]
  /\ arguments = <<>>
  /\ returned = <<>>
  /\ available = TRUE

SpecReplay == InitReplay /\ [][Next]_vars

(***************************************************************************)
(* Two calls of generate_weekly_timetable at a time: the route is a plain  *)
(* `def`, which the server runs in a thread pool, and it makes a new       *)
(* TimetableDataHelper and a new SmartTimetableEngine for every request.   *)
(* The variables of the run are those of the call whose thread runs;       *)
(* `parked` holds those of the other call.                                 *)
(***************************************************************************)
RunLocals ==
  [pc |-> pc, req |-> req, result |-> result, calls |-> calls,
   validation_warnings |-> validation_warnings, created_count |-> created_count,
   children_data |-> children_data, therapists_data |-> therapists_data,
   data_warnings |-> data_warnings, session_slots |-> session_slots,
   position |-> position, therapist_slots |-> therapist_slots,
   therapists_by_dept |-> therapists_by_dept,
   child_daily_sessions |-> child_daily_sessions,
   therapist_daily_sessions |-> therapist_daily_sessions,
   allocated_sessions |-> allocated_sessions,
   unallocated_sessions |-> unallocated_sessions,
   allocation_result |-> allocation_result]

\* the thread of the other call gets the processor: between any two store
\* operations or steps of one call, those of the other may happen
Switch ==
  /\ parked' = RunLocals
  /\ pc' = parked.pc
  /\ req' = parked.req
  /\ result' = parked.result
  /\ calls' = parked.calls
  /\ validation_warnings' = parked.validation_warnings
  /\ created_count' = parked.created_count
  /\ children_data' = parked.children_data
  /\ therapists_data' = parked.therapists_data
  /\ data_warnings' = parked.data_warnings
  /\ session_slots' = parked.session_slots
  /\ position' = parked.position
  /\ therapist_slots' = parked.therapist_slots
  /\ therapists_by_dept' = parked.therapists_by_dept
  /\ child_daily_sessions' = parked.child_daily_sessions
  /\ therapist_daily_sessions' = parked.therapist_daily_sessions
  /\ allocated_sessions' = parked.allocated_sessions
  /\ unallocated_sessions' = parked.unallocated_sessions
  /\ allocation_result' = parked.allocation_result
  /\ UNCHANGED <<store_vars, replay, unit_vars, cache_vars, generator>>

\* the weeks of the concurrent requests, which all select child 1 and both
\* therapists and do not regenerate
ConcurrentWeeks == {0, 7}

InitConcurrent ==
  /\ children_table = ChildrenSameDay(2)
  /\ therapists_table = TherapistsTwin
  /\ store = <<>>
  /\ InitRun
  /\ replay = [on |-> FALSE]
  /\ InitRoutes
  /\ parked = IdleRun
  /\ generator = [on |-> TRUE, place |-> 0]
  /\ arguments = <<>>
  /\ returned = <<>>
  /\ available = TRUE

NextConcurrent ==
  \/ \E w \in ConcurrentWeeks : StartRun(w, <<1>>, <<1, 2>>, FALSE)
  \/ FetchAndValidateData
  \/ PrepareSlots
  \/ AllocateNext
  \/ FinishAllocation
  \/ \E db_fails \in BOOLEAN : PersistSessions(db_fails)
  \/ ReturnOverview
  \/ Switch

SpecConcurrent == InitConcurrent /\ [][NextConcurrent]_vars

(***************************************************************************)
(* The record routes and the cache in front of them (api/routes.py,        *)
(* utils/redis_helper.py), with Redis available.                           *)
(***************************************************************************)
engine_vars ==
  <<store_vars, run_vars, data_vars, alloc_vars, replay, parked, generator, unit_vars>>

\* RedisHelper.get: <<the value>>, or <<>> for None when the key is not set
\* or Redis is not available
RedisGet(c, key) == IF ~available THEN <<>> ELSE c[key]
\* RedisSet without the test of `available`
RedisSetUnchecked(c, key, value) == [c EXCEPT ![key] = <<value>>]
\* RedisHelper.set
RedisSet(c, key, value) == IF ~available THEN c ELSE [c EXCEPT ![key] = <<value>>]
\* `if cached_data:` an empty list counts as a miss
Hit(cached_data) == cached_data # <<>> /\ cached_data[1] # <<>>
\* RedisHelper.invalidate_pattern, the pattern given as the keys it matches
InvalidatePattern(c, keys) ==
  IF ~available THEN c ELSE [k \in DOMAIN c |-> IF k \in keys THEN <<>> ELSE c[k]]
\* RedisHelper.invalidate_child_cache; child_id = 0 is the call without an id
InvalidateChildCache(c, child_id) ==
  LET patterns ==
        IF child_id # 0
          THEN {{ChildAvailabilityKey(child_id)}}
          ELSE {{ChildrenKey}, {ChildAvailabilityKey(i) : i \in ChildIds}}
  IN  InvalidatePattern(c, UNION patterns)
\* RedisHelper.invalidate_therapist_cache
InvalidateTherapistCache(c, therapist_id) ==
  LET patterns ==
        IF therapist_id # 0
          THEN {{TherapistAvailabilityKey(therapist_id)}}
          ELSE {{TherapistsKey}, {TherapistAvailabilityKey(i) : i \in TherapistIds}}
  IN  InvalidatePattern(c, UNION patterns)

\* the rows of a query, in the order of their ids
RECURSIVE OrderById(_)
OrderById(rows) ==
  IF rows = {} THEN <<>>
  ELSE LET first == CHOOSE r \in rows : \A o \in rows : r.id <= o.id
       IN  <<first>> \o OrderById(rows \ {first})
\* the id the table gives a new row
NewId(rows) ==
  IF rows = {} THEN 1
  ELSE (CHOOSE r \in rows : \A o \in rows : r.id >= o.id).id + 1
\* str() of a Time column
TimeStr(minutes) == <<minutes \div 60, minutes % 60, 0>>
DepartmentName(department_id) == <<"department", department_id>>

\* what get_children reads from the tables
ChildrenList(d) ==
  LET children == OrderById({c \in d.children : c.is_active})
      dept_info(child) ==
        LET departments == OrderById({cd \in d.child_departments : cd.child_id = child.id})
        IN  [i \in 1..Len(departments) |->
               [department_id |-> departments[i].department_id,
                sessions_per_week |-> departments[i].sessions_per_week]]
  IN  [i \in 1..Len(children) |->
         [id |-> children[i].id, name |-> children[i].name,
          is_active |-> children[i].is_active,
          departments |-> dept_info(children[i])]]
\* what get_child_availability reads from the tables
ChildAvailabilityList(d, child_id) ==
  LET availability == OrderById({a \in d.child_availability : a.child_id = child_id})
  IN  [i \in 1..Len(availability) |->
         [id |-> availability[i].id, day_of_week |-> availability[i].day_of_week,
          start_time |-> TimeStr(availability[i].start_time),
          end_time |-> TimeStr(availability[i].end_time)]]
\* what get_therapists reads from the tables
TherapistsList(d) ==
  LET therapists == OrderById({t \in d.therapists : t.is_active})
  IN  [i \in 1..Len(therapists) |->
         [id |-> therapists[i].id, name |-> therapists[i].name,
          department_id |-> therapists[i].department_id,
          department_name |-> DepartmentName(therapists[i].department_id),
          is_active |-> therapists[i].is_active]]
\* what get_therapist_availability reads from the tables
TherapistAvailabilityList(d, therapist_id) ==
  LET availability ==
        OrderById({a \in d.therapist_availability : a.therapist_id = therapist_id})
  IN  [i \in 1..Len(availability) |->
         [id |-> availability[i].id, day_of_week |-> availability[i].day_of_week,
          start_time |-> TimeStr(availability[i].start_time),
          end_time |-> TimeStr(availability[i].end_time),
          is_available |-> availability[i].is_available]]

\* a read route answers with `body`, the value of `key` or what it read
\* from the tables
Respond(key, body) == response' = <<[key |-> key, body |-> body]>>
\* a mutating route answers with a message or raises an HTTPException
Message(status) == response' = <<[status |-> status]>>

get_children ==
  LET cached_data == RedisGet(cache, ChildrenKey) IN
  /\ IF Hit(cached_data)
       THEN /\ Respond(ChildrenKey, cached_data[1])
            /\ UNCHANGED cache
       ELSE LET listing == ChildrenList(db) IN
            /\ cache' = RedisSet(cache, ChildrenKey, listing)
            /\ Respond(ChildrenKey, listing)
  /\ UNCHANGED <<db, engine_vars, available>>

create_child(name) ==
  LET new_child == [id |-> NewId(db.children), name |-> name, is_active |-> TRUE] IN
  /\ new_child.id \in ChildIds
  /\ db' = [db EXCEPT !.children = @ \cup {new_child}]
  /\ cache' = InvalidateChildCache(cache, 0)
  /\ Message(200)
  /\ UNCHANGED <<engine_vars, available>>

\* name and is_active are <<>> when the request leaves them out
update_child(child_id, name, is_active) ==
  LET found == {c \in db.children : c.id = child_id} IN
  /\ IF found = {}
       THEN /\ Message(404)
            /\ UNCHANGED <<db, cache>>
       ELSE LET db_child == CHOOSE c \in found : TRUE
                renamed == IF name # <<>> THEN [db_child EXCEPT !.name = name[1]]
                           ELSE db_child
                updated == IF is_active # <<>>
                             THEN [renamed EXCEPT !.is_active = is_active[1]]
                           ELSE renamed
            IN  /\ db' = [db EXCEPT !.children = (@ \ {db_child}) \cup {updated}]
                /\ cache' = InvalidateChildCache(cache, child_id)
                /\ Message(200)
  /\ UNCHANGED <<engine_vars, available>>

\* the rows whose child_id column, a foreign key that is not nullable, holds
\* the child
ChildDependents(d, child_id) ==
  {cd \in d.child_departments : cd.child_id = child_id}
    \cup {a \in d.child_availability : a.child_id = child_id}

delete_child(child_id) ==
  LET found == {c \in db.children : c.id = child_id} IN
  /\ IF found = {}
       THEN /\ Message(404)
            /\ UNCHANGED <<db, cache>>
       ELSE /\ ChildDependents(db, child_id) = {}
            /\ db' = [db EXCEPT !.children = @ \ found]
            /\ cache' = InvalidateChildCache(cache, child_id)
            /\ Message(200)
  /\ UNCHANGED <<engine_vars, available>>

add_child_department(child_id, department_id, sessions_per_week) ==
  LET existing == {cd \in db.child_departments :
                     cd.child_id = child_id /\ cd.department_id = department_id}
      new_dept == [id |-> NewId(db.child_departments), child_id |-> child_id,
                   department_id |-> department_id,
                   sessions_per_week |-> sessions_per_week]
  IN
  /\ IF existing # {}
       THEN /\ Message(400)
            /\ UNCHANGED <<db, cache>>
       ELSE /\ \E c \in db.children : c.id = child_id
            /\ db' = [db EXCEPT !.child_departments = @ \cup {new_dept}]
            /\ cache' = InvalidateChildCache(cache, child_id)
            /\ Message(200)
  /\ UNCHANGED <<engine_vars, available>>

update_child_department(child_id, dept_id, sessions_per_week) ==
  LET found == {cd \in db.child_departments :
                  cd.child_id = child_id /\ cd.department_id = dept_id} IN
  /\ IF found = {}
       THEN /\ Message(404)
            /\ UNCHANGED <<db, cache>>
       ELSE LET child_dept == CHOOSE cd \in found : TRUE IN
            /\ db' = [db EXCEPT !.child_departments =
                        (@ \ {child_dept}) \cup
                          {[child_dept EXCEPT !.sessions_per_week = sessions_per_week]}]
            /\ cache' = InvalidateChildCache(cache, child_id)
            /\ Message(200)
  /\ UNCHANGED <<engine_vars, available>>

remove_child_department(child_id, dept_id) ==
  LET found == {cd \in db.child_departments :
                  cd.child_id = child_id /\ cd.department_id = dept_id} IN
  /\ IF found = {}
       THEN /\ Message(404)
            /\ UNCHANGED <<db, cache>>
       ELSE /\ db' = [db EXCEPT !.child_departments = @ \ found]
            /\ cache' = InvalidateChildCache(cache, child_id)
            /\ Message(200)
  /\ UNCHANGED <<engine_vars, available>>

add_child_availability(child_id, availability) ==
  LET new_availability ==
        [id |-> NewId(db.child_availability), child_id |-> child_id,
         day_of_week |-> availability.day_of_week,
         start_time |-> availability.start_time,
         end_time |-> availability.end_time]
  IN
  /\ new_availability.id \in AvailabilityIds
  /\ \E c \in db.children : c.id = child_id
  /\ db' = [db EXCEPT !.child_availability = @ \cup {new_availability}]
  /\ cache' = InvalidateChildCache(cache, child_id)
  /\ Message(200)
  /\ UNCHANGED <<engine_vars, available>>

get_child_availability(child_id) ==
  LET cached_data == RedisGet(cache, ChildAvailabilityKey(child_id)) IN
  /\ IF Hit(cached_data)
       THEN /\ Respond(ChildAvailabilityKey(child_id), cached_data[1])
            /\ UNCHANGED cache
       ELSE LET listing == ChildAvailabilityList(db, child_id) IN
            /\ cache' = RedisSet(cache, ChildAvailabilityKey(child_id), listing)
            /\ Respond(ChildAvailabilityKey(child_id), listing)
  /\ UNCHANGED <<db, engine_vars, available>>

delete_availability(availability_id) ==
  LET found == {a \in db.child_availability : a.id = availability_id} IN
  /\ IF found = {}
       THEN /\ Message(404)
            /\ UNCHANGED <<db, cache>>
       ELSE LET availability == CHOOSE a \in found : TRUE
                child_id == availability.child_id
            IN  /\ db' = [db EXCEPT !.child_availability = @ \ found]
                /\ cache' = InvalidateChildCache(cache, child_id)
                /\ Message(200)
  /\ UNCHANGED <<engine_vars, available>>

get_therapists ==
  LET cached_data == RedisGet(cache, TherapistsKey) IN
  /\ IF Hit(cached_data)
       THEN /\ Respond(TherapistsKey, cached_data[1])
            /\ UNCHANGED cache
       ELSE LET listing == TherapistsList(db) IN
            /\ cache' = RedisSet(cache, TherapistsKey, listing)
            /\ Respond(TherapistsKey, listing)
  /\ UNCHANGED <<db, engine_vars, available>>

create_therapist(name, department_id) ==
  LET new_therapist == [id |-> NewId(db.therapists), name |-> name,
                        department_id |-> department_id, is_active |-> TRUE] IN
  /\ new_therapist.id \in TherapistIds
  /\ db' = [db EXCEPT !.therapists = @ \cup {new_therapist}]
  /\ cache' = InvalidateTherapistCache(cache, 0)
  /\ Message(200)
  /\ UNCHANGED <<engine_vars, available>>

update_therapist(therapist_id, name, is_active) ==
  LET found == {t \in db.therapists : t.id = therapist_id} IN
  /\ IF found = {}
       THEN /\ Message(404)
            /\ UNCHANGED <<db, cache>>
       ELSE LET db_therapist == CHOOSE t \in found : TRUE
                renamed == IF name # <<>> THEN [db_therapist EXCEPT !.name = name[1]]
                           ELSE db_therapist
                updated == IF is_active # <<>>
                             THEN [renamed EXCEPT !.is_active = is_active[1]]
                           ELSE renamed
            IN  /\ db' = [db EXCEPT !.therapists = (@ \ {db_therapist}) \cup {updated}]
                /\ cache' = InvalidateTherapistCache(cache, therapist_id)
                /\ Message(200)
  /\ UNCHANGED <<engine_vars, available>>

toggle_therapist_availability(therapist_id) ==
  LET found == {t \in db.therapists : t.id = therapist_id} IN
  /\ IF found = {}
       THEN /\ Message(404)
            /\ UNCHANGED <<db, cache>>
       ELSE LET therapist == CHOOSE t \in found : TRUE
                toggled == [therapist EXCEPT !.is_active = ~@]
            IN  /\ db' = [db EXCEPT !.therapists = (@ \ {therapist}) \cup {toggled}]
                /\ cache' = InvalidateTherapistCache(cache, therapist_id)
                /\ Message(200)
  /\ UNCHANGED <<engine_vars, available>>

add_therapist_availability(therapist_id, availability) ==
  LET new_availability ==
        [id |-> NewId(db.therapist_availability), therapist_id |-> therapist_id,
         day_of_week |-> availability.day_of_week,
         start_time |-> availability.start_time,
         end_time |-> availability.end_time, is_available |-> TRUE]
  IN
  /\ new_availability.id \in AvailabilityIds
  /\ \E t \in db.therapists : t.id = therapist_id
  /\ db' = [db EXCEPT !.therapist_availability = @ \cup {new_availability}]
  /\ cache' = InvalidateTherapistCache(cache, therapist_id)
  /\ Message(200)
  /\ UNCHANGED <<engine_vars, available>>

get_therapist_availability(therapist_id) ==
  LET cached_data == RedisGet(cache, TherapistAvailabilityKey(therapist_id)) IN
  /\ IF Hit(cached_data)
       THEN /\ Respond(TherapistAvailabilityKey(therapist_id), cached_data[1])
            /\ UNCHANGED cache
       ELSE LET listing == TherapistAvailabilityList(db, therapist_id) IN
            /\ cache' = RedisSet(cache, TherapistAvailabilityKey(therapist_id), listing)
            /\ Respond(TherapistAvailabilityKey(therapist_id), listing)
  /\ UNCHANGED <<db, engine_vars, available>>

toggle_therapist_day_availability(availability_id) ==
  LET found == {a \in db.therapist_availability : a.id = availability_id} IN
  /\ IF found = {}
       THEN /\ Message(404)
            /\ UNCHANGED <<db, cache>>
       ELSE LET availability == CHOOSE a \in found : TRUE
                toggled == [availability EXCEPT !.is_available = ~@]
            IN  /\ db' = [db EXCEPT !.therapist_availability =
                            (@ \ {availability}) \cup {toggled}]
                /\ cache' = InvalidateTherapistCache(cache, availability.therapist_id)
                /\ Message(200)
  /\ UNCHANGED <<engine_vars, available>>

bulk_toggle_children(child_ids, active_status) ==
  LET updated == {c \in db.children : c.id \in child_ids} IN
  /\ db' = [db EXCEPT !.children =
              {IF c \in updated THEN [c EXCEPT !.is_active = active_status] ELSE c :
                 c \in @}]
  /\ cache' = InvalidateChildCache(cache, 0)
  /\ Message(200)
  /\ UNCHANGED <<engine_vars, available>>

bulk_toggle_therapists(therapist_ids, active_status) ==
  LET updated == {t \in db.therapists : t.id \in therapist_ids} IN
  /\ db' = [db EXCEPT !.therapists =
              {IF t \in updated THEN [t EXCEPT !.is_active = active_status] ELSE t :
                 t \in @}]
  /\ cache' = InvalidateTherapistCache(cache, 0)
  /\ Message(200)
  /\ UNCHANGED <<engine_vars, available>>

\* the time to live RedisHelper.set gave the key runs out
KeyExpires(key) ==
  /\ cache[key] # <<>>
  /\ cache' = [cache EXCEPT ![key] = <<>>]
  /\ UNCHANGED <<db, response, engine_vars, available>>

\* <<>> for a field the request leaves out, <<v>> for one it sets
Optional(values) == {<<>>} \cup {<<v>> : v \in values}

\* a request to one of the record routes
RecordRoute ==
  \/ get_children
  \/ \E name \in ChildNames : create_child(name)
  \/ \E child_id \in ChildIds, name \in Optional(ChildNames), is_active \in Optional(BOOLEAN) :
        update_child(child_id, name, is_active)
  \/ \E child_id \in ChildIds : delete_child(child_id)
  \/ \E child_id \in ChildIds, department_id \in RouteDepartments, n \in RouteSessionsPerWeek :
        add_child_department(child_id, department_id, n)
  \/ \E child_id \in ChildIds, dept_id \in RouteDepartments, n \in RouteSessionsPerWeek :
        update_child_department(child_id, dept_id, n)
  \/ \E child_id \in ChildIds, dept_id \in RouteDepartments :
        remove_child_department(child_id, dept_id)
  \/ \E child_id \in ChildIds, availability \in RouteWindows :
        add_child_availability(child_id, availability)
  \/ \E child_id \in ChildIds : get_child_availability(child_id)
  \/ \E availability_id \in AvailabilityIds : delete_availability(availability_id)
  \/ get_therapists
  \/ \E name \in TherapistNames, department_id \in RouteDepartments :
        create_therapist(name, department_id)
  \/ \E therapist_id \in TherapistIds, name \in Optional(TherapistNames), is_active \in Optional(BOOLEAN) :
        update_therapist(therapist_id, name, is_active)
  \/ \E therapist_id \in TherapistIds : toggle_therapist_availability(therapist_id)
  \/ \E therapist_id \in TherapistIds, availability \in RouteWindows :
        add_therapist_availability(therapist_id, availability)
  \/ \E therapist_id \in TherapistIds : get_therapist_availability(therapist_id)
  \/ \E availability_id \in AvailabilityIds : toggle_therapist_day_availability(availability_id)
  \/ \E child_ids \in SUBSET ChildIds, active_status \in BOOLEAN :
        bulk_toggle_children(child_ids, active_status)
  \/ \E therapist_ids \in SUBSET TherapistIds, active_status \in BOOLEAN :
        bulk_toggle_therapists(therapist_ids, active_status)

NextRoutes ==
  \/ RecordRoute
  \/ \E key \in CacheKeys : KeyExpires(key)

InitIdleEngine ==
  /\ children_table = <<>>
  /\ therapists_table = <<>>
  /\ store = <<>>
  /\ InitRun
  /\ replay = [on |-> FALSE]
  /\ InitRoutes
  /\ parked = IdleRun
  /\ generator = [on |-> FALSE]
  /\ arguments = <<>>
  /\ returned = <<>>
  /\ available \in BOOLEAN

SpecRoutes == InitIdleEngine /\ [][NextRoutes]_vars

(***************************************************************************)
(* The session routes and the cached timetable and reports                 *)
(* (api/routes.py, utils/redis_helper.py).                                 *)
(***************************************************************************)
\* the values the requests to the session routes carry
SessionIds == {1, 2}
SessionTherapists == {1, 2}
FirstSlot == [start_time |-> 540, end_time |-> 600]

\* the children and therapists the session routes look names up in
SeededTables ==
  [EmptyTables EXCEPT
     !.children = {[id |-> 1, name |-> "Ann", is_active |-> TRUE]},
     !.therapists = {[id |-> 1, name |-> "Tom", department_id |-> 1, is_active |-> TRUE]}]

\* `if cached_data:` on a dict that has keys: any cached value is a hit
HitDict(cached_data) == cached_data # <<>>

\* RedisHelper.invalidate_timetable_cache; week_starting is <<>> in the call
\* without a week, <<the week>> in the others
InvalidateTimetableCache(c, week_starting) ==
  LET patterns ==
        IF week_starting # <<>>
          THEN {{TimetableKey(week_starting[1])}, {WeeklyReportKey(week_starting[1])}}
          ELSE {{TimetableKey(w) : w \in SessionWeeks},
                {WeeklyReportKey(w) : w \in SessionWeeks},
                {DailyReportKey(d) : d \in SessionDates}}
  IN  InvalidatePattern(c, UNION patterns)

\* date.weekday() and date.strftime("%A"), day 0 being a Monday
Weekday(d) == d % DaysPerWeek
DayName(d) ==
  <<"Monday", "Tuesday", "Wednesday", "Thursday", "Friday", "Saturday", "Sunday">>[Weekday(d) + 1]

\* `x.name if x else "Unknown"`
NameOf(rows, id) ==
  IF \E r \in rows : r.id = id THEN (CHOOSE r \in rows : r.id = id).name ELSE "Unknown"

\* what get_weekly_timetable reads from the tables
WeeklyTimetable(d, sessions, week_starting) ==
  LET rows == WeekSessions(sessions, week_starting)
  IN  [week_starting |-> week_starting,
       sessions |->
         [i \in 1..Len(rows) |->
            [session_id |-> rows[i].id,
             child_name |-> NameOf(d.children, rows[i].child_id),
             therapist_name |-> NameOf(d.therapists, rows[i].therapist_id),
             department_name |-> DepartmentName(rows[i].department_id),
             date |-> rows[i].date,
             start_time |-> TimeStr(rows[i].start_time),
             end_time |-> TimeStr(rows[i].end_time)]]]

\* what get_daily_report reads from the tables
DailyReport(d, sessions, report_date) ==
  LET rows == SelectSeq(sessions, LAMBDA s : s.date = report_date)
      report_data ==
        [i \in 1..Len(rows) |->
           [child_name |-> NameOf(d.children, rows[i].child_id),
            therapist_name |-> NameOf(d.therapists, rows[i].therapist_id),
            department |-> DepartmentName(rows[i].department_id),
            start_time |-> TimeStr(rows[i].start_time),
            end_time |-> TimeStr(rows[i].end_time)]]
  IN  [date |-> report_date, sessions |-> report_data,
       total_sessions |-> Len(report_data)]

\* what get_weekly_report reads from the tables
WeeklyReport(d, sessions, week_starting) ==
  LET rows == WeekSessions(sessions, week_starting)
      report_data ==
        [i \in 1..Len(rows) |->
           [child_name |-> NameOf(d.children, rows[i].child_id),
            therapist_name |-> NameOf(d.therapists, rows[i].therapist_id),
            department |-> DepartmentName(rows[i].department_id),
            date |-> rows[i].date,
            day_of_week |-> DayName(rows[i].date),
            start_time |-> TimeStr(rows[i].start_time),
            end_time |-> TimeStr(rows[i].end_time)]]
      children_sessions ==
        [child_name \in {r.child_name : r \in Range(report_data)} |->
           SelectSeq(report_data, LAMBDA r : r.child_name = child_name)]
  IN  [week_starting |-> week_starting, sessions_by_child |-> children_sessions,
       all_sessions |-> report_data]

get_weekly_timetable(week_starting) ==
  LET cached_data == RedisGet(cache, TimetableKey(week_starting)) IN
  /\ IF HitDict(cached_data)
       THEN /\ Respond(TimetableKey(week_starting), cached_data[1])
            /\ UNCHANGED cache
       ELSE LET listing == WeeklyTimetable(db, store, week_starting) IN
            /\ cache' = RedisSet(cache, TimetableKey(week_starting), listing)
            /\ Respond(TimetableKey(week_starting), listing)
  /\ UNCHANGED <<db, available, engine_vars>>

get_daily_report(report_date) ==
  LET cached_data == RedisGet(cache, DailyReportKey(report_date)) IN
  /\ IF HitDict(cached_data)
       THEN /\ Respond(DailyReportKey(report_date), cached_data[1])
            /\ UNCHANGED cache
       ELSE LET listing == DailyReport(db, store, report_date) IN
            /\ cache' = RedisSet(cache, DailyReportKey(report_date), listing)
            /\ Respond(DailyReportKey(report_date), listing)
  /\ UNCHANGED <<db, available, engine_vars>>

get_weekly_report(week_starting) ==
  LET cached_data == RedisGet(cache, WeeklyReportKey(week_starting)) IN
  /\ IF HitDict(cached_data)
       THEN /\ Respond(WeeklyReportKey(week_starting), cached_data[1])
            /\ UNCHANGED cache
       ELSE LET listing == WeeklyReport(db, store, week_starting) IN
            /\ cache' = RedisSet(cache, WeeklyReportKey(week_starting), listing)
            /\ Respond(WeeklyReportKey(week_starting), listing)
  /\ UNCHANGED <<db, available, engine_vars>>

\* the variables a session route leaves alone: all but store, cache, response
session_route_frame ==
  <<db, available, children_table, therapists_table, run_vars, data_vars, alloc_vars,
    replay, parked, generator, unit_vars>>

create_session(session) ==
  LET week_start == session.date - Weekday(session.date)
      new_session ==
        [id |-> NewId(Range(store)), child_id |-> session.child_id,
         therapist_id |-> session.therapist_id,
         department_id |-> session.department_id, date |-> session.date,
         start_time |-> session.start_time, end_time |-> session.end_time,
         week_starting |-> week_start]
  IN
  /\ new_session.id \in SessionIds
  /\ store' = Append(store, new_session)
  /\ cache' = InvalidateTimetableCache(cache, <<week_start>>)
  /\ Message(200)
  /\ UNCHANGED session_route_frame

\* therapist_id, start_time and end_time are <<>> when the request leaves
\* them out
update_session(session_id, therapist_id, start_time, end_time) ==
  LET found == {i \in 1..Len(store) : store[i].id = session_id} IN
  /\ IF found = {}
       THEN /\ Message(404)
            /\ UNCHANGED <<store, cache>>
       ELSE LET i == CHOOSE i \in found : TRUE
                db_session == store[i]
                week_starting == db_session.week_starting
                with_therapist ==
                  IF therapist_id # <<>>
                    THEN [db_session EXCEPT !.therapist_id = therapist_id[1]]
                  ELSE db_session
                with_start ==
                  IF start_time # <<>>
                    THEN [with_therapist EXCEPT !.start_time = start_time[1]]
                  ELSE with_therapist
                with_end ==
                  IF end_time # <<>> THEN [with_start EXCEPT !.end_time = end_time[1]]
                  ELSE with_start
            IN  /\ store' = [store EXCEPT ![i] = with_end]
                /\ cache' = InvalidateTimetableCache(cache, <<week_starting>>)
                /\ Message(200)
  /\ UNCHANGED session_route_frame

delete_session(session_id) ==
  LET found == {i \in 1..Len(store) : store[i].id = session_id} IN
  /\ IF found = {}
       THEN /\ Message(404)
            /\ UNCHANGED <<store, cache>>
       ELSE LET i == CHOOSE i \in found : TRUE
                week_starting == store[i].week_starting
            IN  /\ store' = SubSeq(store, 1, i - 1) \o SubSeq(store, i + 1, Len(store))
                /\ cache' = InvalidateTimetableCache(cache, <<week_starting>>)
                /\ Message(200)
  /\ UNCHANGED session_route_frame

NextSessions ==
  \/ \E week_starting \in SessionWeeks : get_weekly_timetable(week_starting)
  \/ \E report_date \in SessionDates : get_daily_report(report_date)
  \/ \E week_starting \in SessionWeeks : get_weekly_report(week_starting)
  \/ \E d \in SessionDates :
        create_session([child_id |-> 1, therapist_id |-> 1, department_id |-> 1,
                        date |-> d, start_time |-> FirstSlot.start_time,
                        end_time |-> FirstSlot.end_time])
  \/ \E session_id \in SessionIds, therapist_id \in Optional(SessionTherapists) :
        update_session(session_id, therapist_id, <<>>, <<>>)
  \/ \E session_id \in SessionIds : delete_session(session_id)

InitSessions ==
  /\ children_table = <<>>
  /\ therapists_table = <<>>
  /\ store = <<>>
  /\ InitRun
  /\ replay = [on |-> FALSE]
  /\ db = SeededTables
  /\ cache = EmptyCache
  /\ response = <<>>
  /\ available = TRUE
  /\ parked = IdleRun
  /\ generator = [on |-> FALSE]
  /\ arguments = <<>>
  /\ returned = <<>>

SpecSessions == InitSessions /\ [][NextSessions]_vars

\* the record routes and the session routes when the ping at construction
\* failed
InitNoCache ==
  /\ children_table = <<>>
  /\ therapists_table = <<>>
  /\ store = <<>>
  /\ InitRun
  /\ replay = [on |-> FALSE]
  /\ InitRoutes
  /\ parked = IdleRun
  /\ generator = [on |-> FALSE]
  /\ arguments = <<>>
  /\ returned = <<>>
  /\ available = FALSE

NextNoCache ==
  \/ RecordRoute
  \/ NextSessions

SpecNoCache == InitNoCache /\ [][NextNoCache]_vars

(***************************************************************************)
(* Direct calls of the helpers of the engine and of the data helper.      *)
(***************************************************************************)
program_vars ==
  <<store_vars, run_vars, data_vars, alloc_vars, replay, cache_vars, parked, generator>>

\* no request has been made
IdleProgram ==
  /\ children_table = <<>>
  /\ therapists_table = <<>>
  /\ store = <<>>
  /\ InitRun
  /\ replay = [on |-> FALSE]
  /\ InitRoutes
  /\ parked = IdleRun
  /\ generator = [on |-> FALSE]
  /\ available = TRUE

\* the lists of at most MaxWindows windows with their bounds in WindowTimes,
\* which are inside the working hours
MaxWindows == 2
WindowTimes == {working_hours_start, 540, 570, 690}
Windows == {<<a, b>> : a, b \in WindowTimes} \ {<<a, b>> \in WindowTimes \X WindowTimes : a >= b}
WindowLists == UNION {[1..n -> Windows] : n \in 0..MaxWindows}

InitOverlap ==
  /\ IdleProgram
  /\ arguments \in WindowLists \X WindowLists
  /\ returned = <<>>

\* self._find_overlapping_slots(therapist_times, child_times)
CallFindOverlappingSlots ==
  /\ returned = <<>>
  /\ returned' = <<FindOverlappingSlots(arguments[1], arguments[2])>>
  /\ UNCHANGED <<program_vars, arguments>>

SpecOverlap == InitOverlap /\ [][CallFindOverlappingSlots]_vars

\* the batches of at most MaxBatch sessions of one hour or more
MaxBatch == 3
BatchTherapists == {1, 2}
BatchDates == {0, 1}
BatchTimes == {540, 600, 660, 720}
BatchSessions ==
  {x \in [child_id : {1}, department_id : {1}, therapist_id : BatchTherapists,
          week_starting : {0}, date : BatchDates,
          start_time : BatchTimes, end_time : BatchTimes] :
     x.start_time < x.end_time}
Batches == UNION {[1..n -> BatchSessions] : n \in 0..MaxBatch}

InitConflicts ==
  /\ IdleProgram
  /\ arguments \in Batches
  /\ returned = <<>>

\* self._check_time_conflicts(sessions_data)
CallCheckTimeConflicts ==
  /\ returned = <<>>
  /\ returned' = <<CheckTimeConflicts(arguments)>>
  /\ UNCHANGED <<program_vars, arguments>>

SpecConflicts == InitConflicts /\ [][CallCheckTimeConflicts]_vars

\* a candidate of child 1 with therapist 1 on date 0: the load of the
\* therapist, the start of the slot and the sessions the child and the
\* therapist have on the date
PriorityLoads == 0..11
PrioritySlots == {<<540, 600>>, <<720, 780>>}
PriorityChildCounts == 0..(max_sessions_per_child_per_day - 1)
PriorityTherapistCounts == 0..(max_sessions_per_therapist_per_day - 1)

InitPriority ==
  /\ IdleProgram
  /\ \E load \in PriorityLoads, time_slot \in PrioritySlots,
        child_sessions_today \in PriorityChildCounts,
        therapist_sessions_today \in PriorityTherapistCounts :
       arguments =
         [session_slot |-> [child_id |-> 1],
          therapist |-> [therapist_id |-> 1, current_load |-> load,
                         fairness_score |-> load],
          time_slot |-> time_slot,
          session_date |-> 0,
          child_daily_sessions |-> [k \in {<<1, 0>>} |-> child_sessions_today],
          therapist_daily_sessions |-> [k \in {<<1, 0>>} |-> therapist_sessions_today],
          commits |-> 0]
  /\ returned = <<>>

\* self._calculate_slot_priority(...) for the candidate; `returned` keeps
\* the scores, the last one first
CallCalculateSlotPriority ==
  /\ Len(returned) = arguments.commits
  /\ returned' =
       <<CalculateSlotPriority(arguments.session_slot, arguments.therapist,
                               arguments.time_slot, arguments.session_date,
                               arguments.child_daily_sessions,
                               arguments.therapist_daily_sessions)>> \o returned
  /\ UNCHANGED <<program_vars, arguments>>

\* the commit of an assignment of `child_id` to the therapist on
\* `session_date`, as the allocation loop makes it
CommitAssignment(child_id, session_date) ==
  /\ Len(returned) = 1
  /\ arguments.commits = 0
  /\ arguments' =
       [arguments EXCEPT
          !.therapist = CommitLoad(<<@>>, @.therapist_id)[1],
          !.child_daily_sessions = Inc(@, <<child_id, session_date>>),
          !.therapist_daily_sessions = Inc(@, <<arguments.therapist.therapist_id, session_date>>),
          !.commits = 1]
  /\ UNCHANGED <<program_vars, returned>>

NextPriority ==
  \/ CallCalculateSlotPriority
  \/ \E child_id \in {1, 2}, session_date \in {0, 1} : CommitAssignment(child_id, session_date)

SpecPriority == InitPriority /\ [][NextPriority]_vars

\* a direct call of _allocate_sessions_intelligently(session_slots,
\* therapist_slots, week_starting) with the demands of two children, one
\* of them of department 2, and with therapists of department 1 only or of
\* both departments.  (In a call of generate_weekly_timetable the capacity
\* check of step 3 turns down a demand for a department without therapists.)
AllocationChildren == {ChildrenTwoDays(n) : n \in 1..MaxNeed}
AllocationTherapists == {TherapistsTwin, TherapistsFullDay}

InitAllocation ==
  /\ children_table = <<>>
  /\ therapists_table = <<>>
  /\ store = <<>>
  /\ pc = "allocate"
  /\ req = [week_starting |-> 0, active_children |-> <<>>,
            active_therapists |-> <<>>, regenerate_existing |-> FALSE]
  /\ result = <<>>
  /\ calls = NoCalls
  /\ validation_warnings = <<>>
  /\ created_count = 0
  /\ children_data = <<>>
  /\ therapists_data = <<>>
  /\ data_warnings = <<>>
  /\ \E children \in AllocationChildren :
       session_slots \in Arrangements(BuildSessionSlots(children))
  /\ position = 0
  /\ \E therapists \in AllocationTherapists :
       /\ therapist_slots = PrepareTherapistSlots(therapists, EmptyDict, EmptyDict)
       /\ therapists_by_dept = GroupByDepartment(therapist_slots)
  /\ child_daily_sessions = EmptyDict
  /\ therapist_daily_sessions = EmptyDict
  /\ allocated_sessions = <<>>
  /\ unallocated_sessions = <<>>
  /\ allocation_result = <<>>
  /\ replay = [on |-> FALSE]
  /\ InitRoutes
  /\ parked = IdleRun
  /\ generator = [on |-> FALSE]
  /\ arguments = <<>>
  /\ returned = <<>>
  /\ available = TRUE

NextAllocation == AllocateNext \/ FinishAllocation

SpecAllocation == InitAllocation /\ [][NextAllocation]_vars

\* generate_weekly_timetable is one sequential call of one thread: a stage
\* that can end goes on to another stage, and a for loop that has a next
\* demand goes on to it.  The two actions say so of pc and position alone.
NextStage ==
  /\ \/ pc \in {"clear", "fetch", "prepare", "persist", "overview"}
     \/ pc = "allocate" /\ position = Len(session_slots)
  /\ pc' \in {"fetch", "prepare", "allocate", "persist", "overview", "done"}

NextDemand ==
  /\ pc = "allocate"
  /\ position < Len(session_slots)
  /\ position' = position + 1

Fairness == WF_pc(NextStage) /\ WF_position(NextDemand)

\* the tables of Init with children that need two sessions at most, or four
LiveNeeds == 0..2

InitLive ==
  /\ Init
  /\ children_table \in {ChildrenSameDay(n) : n \in LiveNeeds}
                         \cup {ChildrenTwoDays(n) : n \in LiveNeeds}

SpecLive == InitLive /\ [][Next]_vars /\ Fairness

(***************************************************************************)
(* POST /generate-timetable: the route around the engine.                  *)
(***************************************************************************)
\* raise HTTPException(status_code, detail)
HTTPException(status_code, detail) == [status |-> status_code, detail |-> detail]

\* the dict the route returns on a successful result; FastAPI answers 200
GenerateResponse(generation_result, week_starting) ==
  [status |-> 200,
   success |-> TRUE,
   message |-> "Timetable generated successfully",
   sessions_created |-> generation_result.sessions_created,
   week_starting |-> week_starting,
   timetable_data |-> generation_result.timetable_data,
   warnings |-> generation_result.warnings,
   has_warnings |-> generation_result.warnings # <<>>]

\* what the body of the try raises: nothing on a successful result, the
\* HTTPException of the else branch on a failed one
RaisedInTry(generation_result) ==
  IF generation_result.success THEN <<>>
  ELSE <<HTTPException(400,
           [success |-> FALSE,
            message |-> "Timetable generation failed",
            errors |-> generation_result.errors,
            sessions_created |-> generation_result.sessions_created])>>

\* `except Exception as e`: HTTPException is an Exception, so the clause
\* catches whatever the try raised; str(e) of an HTTPException is its
\* status code and its detail
ExceptException(e) ==
  HTTPException(500,
    [success |-> FALSE,
     message |-> "Internal server error during timetable generation",
     error |-> <<e.status, e.detail>>])

\* what leaves the route for a GenerationResult
GenerateAnswer(generation_result, week_starting) ==
  LET raised == RaisedInTry(generation_result)
  IN IF raised = <<>> THEN GenerateResponse(generation_result, week_starting)
     ELSE ExceptException(raised[1])

\* the tables of Init whose children are free on two days and need one
\* session each
InitGenerate ==
  /\ Init
  /\ children_table = ChildrenTwoDays(1)

\* the rows of the engine as the table holds them, each with a primary key
Numbered(sessions) ==
  [i \in 1..Len(sessions) |->
     [id |-> i,
      child_id |-> sessions[i].child_id,
      therapist_id |-> sessions[i].therapist_id,
      department_id |-> sessions[i].department_id,
      date |-> sessions[i].date,
      start_time |-> sessions[i].start_time,
      end_time |-> sessions[i].end_time,
      week_starting |-> sessions[i].week_starting]]

\* GET /timetable/{week_starting} between two calls of the engine: the
\* listing of the week is read from the cache, or from the table and cached
ReadTimetable(week_starting) ==
  /\ pc = "idle"
  /\ LET cached_data == RedisGet(cache, TimetableKey(week_starting)) IN
     IF HitDict(cached_data)
       THEN /\ Respond(TimetableKey(week_starting), cached_data[1])
            /\ UNCHANGED cache
       ELSE LET listing == WeeklyTimetable(db, Numbered(store), week_starting) IN
            /\ cache' = RedisSet(cache, TimetableKey(week_starting), listing)
            /\ Respond(TimetableKey(week_starting), listing)
  /\ UNCHANGED <<db, available, engine_vars>>

\* the request reaches the route, which builds the engine and calls it
PostGenerateTimetable(week_starting, active_children, active_therapists, regenerate_existing) ==
  /\ pc = "idle"
  /\ StartRun(week_starting, active_children, active_therapists, regenerate_existing)

\* the engine has returned `result`: the route invalidates the cache of the
\* week on a success, and answers
AnswerGenerate ==
  /\ pc = "done"
  /\ result # <<>>
  /\ pc' = "idle"
  /\ cache' = IF result[1].success
                THEN InvalidateTimetableCache(cache, <<req.week_starting>>)
                ELSE cache
  /\ response' = <<GenerateAnswer(result[1], req.week_starting)>>
  /\ UNCHANGED <<store_vars, req, result, calls, validation_warnings, created_count,
                 data_vars, alloc_vars, replay, db, available, parked, generator,
                 unit_vars>>

NextGenerate ==
  \/ \E w \in RequestWeeks, c \in RequestChildren, t \in RequestTherapists,
        r \in BOOLEAN : PostGenerateTimetable(w, c, t, r)
  \/ ClearWeek
  \/ FetchAndValidateData
  \/ PrepareSlots
  \/ AllocateNext
  \/ FinishAllocation
  \/ \E db_fails \in BOOLEAN : PersistSessions(db_fails)
  \/ ReturnOverview
  \/ AnswerGenerate
  \/ \E week_starting \in SessionWeeks : ReadTimetable(week_starting)

SpecGenerate == InitGenerate /\ [][NextGenerate]_vars

(***************************************************************************)
(* What the claims speak of.                                               *)
(***************************************************************************)
\* two sessions of one therapist on one date whose [start, end) overlap
TherapistOverlap(rows) ==
  \E i, j \in 1..Len(rows) :
    /\ i < j
    /\ rows[i].therapist_id = rows[j].therapist_id
    /\ rows[i].date = rows[j].date
    /\ rows[i].start_time < rows[j].end_time
    /\ rows[j].start_time < rows[i].end_time

Returned == pc = "done" /\ result # <<>>
Outcome == result[1]

ExistError == <<"Sessions already exist for this week">>
NoChildrenError == <<"No children selected">>
NoTherapistsError == <<"No therapists selected">>
MondayError == <<"Week must start on Monday">>
RequestErrors == {ExistError, NoChildrenError, NoTherapistsError, MondayError}

\* a step that is a call of generate_weekly_timetable
CallStep == pc \in {"idle", "done"} /\ calls' = NoCalls

\* the data a run with the arguments `req` is given
FetchedChildren == FetchByIds(children_table, req.active_children)
FetchedTherapists == FetchByIds(therapists_table, req.active_therapists)

(***************************************************************************)
(* The claims.                                                             *)
(***************************************************************************)
\* C1: the sessions table never holds two sessions of one therapist on one
\* date with overlapping [start, end); and when the batch handed to
\* bulk_create_sessions holds such a pair, that step leaves the table as it
\* was and the run returns success = false with sessions_created = 0.
C1_PersistedConflictFree ==
  /\ [](~TherapistOverlap(store))
  /\ [][(pc = "persist"
         /\ TherapistOverlap(allocation_result[1].timetable_data.sessions))
        => /\ store' = store
           /\ pc' = "done"
           /\ ~result'[1].success
           /\ result'[1].sessions_created = 0]_vars

\* a run has returned the conflict of its batch while the table holds the
\* sessions of an earlier run
C1_Witness ==
  /\ Returned
  /\ calls.bulk = 1
  /\ ~Outcome.success
  /\ Outcome.errors[1][1] = "Therapist has overlapping sessions"
  /\ store # <<>>

\* C2: the assignments made so far by the allocation stage never hold two
\* assignments of one therapist on one date with overlapping [start, end).
C2_AllocationConflictFree == ~TherapistOverlap(allocated_sessions)

\* the number of assignments of the run with the given child and date
ChildDayCount(child_id, session_date) ==
  Len(SelectSeq(allocated_sessions,
                LAMBDA a : a.child_id = child_id /\ a.date = session_date))

\* the number of assignments of the run with the given therapist and date
TherapistDayCount(therapist_id, session_date) ==
  Len(SelectSeq(allocated_sessions,
                LAMBDA a : a.therapist_id = therapist_id /\ a.date = session_date))

\* C3: at every point of a run no (child, date) has more than 5 assignments
\* and no (therapist, date) has more than 8.
C3_DailyLimits ==
  \A a \in Range(allocated_sessions) :
    /\ ChildDayCount(a.child_id, a.date) <= 5
    /\ TherapistDayCount(a.therapist_id, a.date) <= 8

\* a child holds 5 sessions on a date, a therapist 8, and a demand was
\* turned away
C3_Witness ==
  /\ pc = "allocate"
  /\ \E a \in Range(allocated_sessions) : ChildDayCount(a.child_id, a.date) = 5
  /\ \E a \in Range(allocated_sessions) : TherapistDayCount(a.therapist_id, a.date) = 8
  /\ unallocated_sessions # <<>>

\* [start, end) lies inside a window of `availability` on the day of week
\* of the assignment
InsideWindowOfDay(availability, a) ==
  \E w \in Range(availability) :
    /\ a.date - a.week_starting \in 0..5
    /\ w.day_of_week = valid_days[a.date - a.week_starting + 1]
    /\ w.start_time <= a.start_time
    /\ a.end_time <= w.end_time

\* C4: every assignment lies inside a window of its child on the
\* assignment's day of week and inside a window of its therapist on that day.
C4_InsideAvailability ==
  \A a \in Range(allocated_sessions) :
    /\ \A c \in Range(children_data) :
         c.id = a.child_id => InsideWindowOfDay(c.availability, a)
    /\ \A t \in Range(therapists_data) :
         t.id = a.therapist_id => InsideWindowOfDay(t.availability, a)

\* C5: an allocation whose arguments, data and historical loads are those
\* of the first allocation ends with the first allocation's assignment set.
C5_SameInputsSameAssignments ==
  (/\ pc = "allocate"
   /\ position = Len(session_slots)
   /\ "key" \in DOMAIN replay
   /\ replay.key = ReplayKey)
  => Range(allocated_sessions) = Range(replay.sessions)

\* C6: the call that follows a successful run for the same week with
\* regenerate_existing = false returns the 'sessions already exist' failure
\* and leaves the sessions table as it was.
C6_SecondRunRejected ==
  [][(/\ Returned
      /\ Outcome.success
      /\ CallStep
      /\ req'.week_starting = req.week_starting
      /\ ~req'.regenerate_existing)
     => /\ pc' = "done"
        /\ ~result'[1].success
        /\ result'[1].errors = <<ExistError>>
        /\ store' = store]_vars

\* C6 as amended: the same, after a successful run that created at least
\* one session.
C6_SecondRunRejectedAfterSessions ==
  [][(/\ Returned
      /\ Outcome.success
      /\ Outcome.sessions_created >= 1
      /\ CallStep
      /\ req'.week_starting = req.week_starting
      /\ ~req'.regenerate_existing)
     => /\ pc' = "done"
        /\ ~result'[1].success
        /\ result'[1].sessions_created = 0
        /\ result'[1].errors = <<ExistError>>
        /\ store' = store]_vars

\* a call was rejected because the week has sessions, and they are there
C6_Witness ==
  /\ Returned
  /\ Outcome.errors = <<ExistError>>
  /\ ~req.regenerate_existing
  /\ WeekSessions(store, req.week_starting) # <<>>

\* C7: a request whose week_starting is not a Monday gets exactly the error
\* 'Week must start on Monday'.
C7_NonMondaySingleError ==
  (Returned /\ req.week_starting % 7 # 0)
  => /\ ~Outcome.success
     /\ Outcome.sessions_created = 0
     /\ Outcome.errors = <<MondayError>>

\* C8: a Monday request with no children and no therapists gets both
\* emptiness errors.
C8_BothEmptyListsReported ==
  (/\ Returned
   /\ req.week_starting % 7 = 0
   /\ req.active_children = <<>>
   /\ req.active_therapists = <<>>)
  => /\ NoChildrenError \in Range(Outcome.errors)
     /\ NoTherapistsError \in Range(Outcome.errors)

\* the request is one of the request errors: not a Monday, an empty id
\* list, or sessions of the week exist and are not to be regenerated
RequestInvalid(sessions, request) ==
  \/ request.week_starting % 7 # 0
  \/ request.active_children = <<>>
  \/ request.active_therapists = <<>>
  \/ /\ ~request.regenerate_existing
     /\ \E s \in Range(sessions) : s.week_starting = request.week_starting

\* C9: a call with an invalid request returns a request error at once; and
\* a step that returns a request error leaves the sessions table as it was,
\* the run having cleared, fetched and created nothing.
C9_RequestErrorTouchesNothing ==
  /\ [][(CallStep /\ RequestInvalid(store, req'))
        => /\ pc' = "done"
           /\ ~result'[1].success
           /\ Range(result'[1].errors) \subseteq RequestErrors]_vars
  /\ [][(/\ pc' = "done"
         /\ result' # <<>>
         /\ Range(result'[1].errors) \cap RequestErrors # {})
        => /\ store' = store
           /\ calls' = NoCalls]_vars

\* a request to regenerate a week that has sessions was rejected, and the
\* sessions are still there
C9_Witness ==
  /\ Returned
  /\ Range(Outcome.errors) \cap RequestErrors # {}
  /\ req.regenerate_existing
  /\ WeekSessions(store, req.week_starting) # <<>>
  /\ calls = NoCalls

\* the demand of the data exceeds the capacity computed for the therapists,
\* in total or for a department
CapacityExceeded(children, therapists) ==
  \/ TotalSessionsNeeded(children) > TotalCapacity(therapists)
  \/ \E d \in Range(DemandDepartments(children)) :
       SessionsNeeded(children, d) > CapacityOf(therapists, d)

CapacityTags == {"Insufficient therapist capacity", "Department sessions needed"}

\* the run got as far as the capacity check
ReachedCapacityCheck ==
  /\ Returned
  /\ calls.fetch = 1
  /\ ValidateChildData(FetchedChildren) = <<>>
  /\ ValidateTherapistData(FetchedTherapists) = <<>>

\* C10: a run whose demand exceeds the capacity is not failed for it: the
\* allocation is made and no shortfall is among the errors.
C10_ShortfallIsWarning ==
  (ReachedCapacityCheck /\ CapacityExceeded(FetchedChildren, FetchedTherapists))
  => /\ calls.loads = 1
     /\ \A e \in Range(Outcome.errors) : e[1] \notin CapacityTags

\* C10 as amended: a run whose demand exceeds the capacity fails before the
\* allocation with the shortfalls as its errors; the allocation is made
\* only for a demand within the capacity, and then every demand visited and
\* not placed has its own unallocated-session warning.
C10_ShortfallFailsTheRun ==
  /\ (ReachedCapacityCheck /\ CapacityExceeded(FetchedChildren, FetchedTherapists))
     => /\ ~Outcome.success
        /\ Outcome.sessions_created = 0
        /\ \E e \in Range(Outcome.errors) : e[1] \in CapacityTags
        /\ Outcome.warnings = <<>>
        /\ calls.loads = 0
        /\ calls.bulk = 0
  /\ pc \in {"allocate", "persist", "overview"}
     => /\ ~CapacityExceeded(children_data, therapists_data)
        /\ Len(allocated_sessions) + Len(unallocated_sessions) = position
        /\ \A m \in Range(unallocated_sessions) :
             m[1] \in {"Could not allocate session for", "No therapists available for"}

\* a run was failed for its shortfall
C10_Witness ==
  /\ ReachedCapacityCheck
  /\ CapacityExceeded(FetchedChildren, FetchedTherapists)
  /\ ~Outcome.success
  /\ Outcome.errors[1][1] = "Insufficient therapist capacity"

\* the error of a bulk insert that raised
DatabaseError == <<"Database error during bulk creation">>

\* C11: when the bulk insert fails, the run returns success = false with
\* sessions_created = 0, the sessions table is as it was before the insert
\* and holds no session of the batch.
C11_FailedInsertLeavesNothing ==
  [][(/\ pc = "persist"
      /\ pc' = "done"
      /\ DatabaseError \in Range(result'[1].errors))
     => /\ ~result'[1].success
        /\ result'[1].sessions_created = 0
        /\ store' = store
        /\ \A a \in Range(allocation_result[1].timetable_data.sessions) :
             SessionRow(a) \notin Range(store')]_vars

\* the insert of a batch of two or more sessions failed, and the week has
\* no session
C11_Witness ==
  /\ Returned
  /\ Outcome.errors = <<DatabaseError>>
  /\ calls.rows >= 2
  /\ WeekSessions(store, req.week_starting) = <<>>

\* C12: a run with regenerate_existing = true that has returned a failure
\* has left in the table every session the week held before it.
C12_FailedRegenerationKeepsWeek ==
  (Returned /\ req.regenerate_existing /\ ~Outcome.success)
  => \A s \in Range(calls.cleared) : s \in Range(store)

\* C13: once a collaborator call or an internal step of a run has raised,
\* the run has returned success = false with sessions_created = 0 and the
\* one error 'Engine error'.
C13_FaultsBecomeEngineErrors ==
  calls.raised >= 1
  => /\ calls.raised = 1
     /\ Returned
     /\ ~Outcome.success
     /\ Outcome.sessions_created = 0
     /\ Len(Outcome.errors) = 1
     /\ Outcome.errors[1][1] = "Engine error"

\* the overview raised after the sessions of the run were stored
C13_Witness ==
  /\ Returned
  /\ calls.raised = 1
  /\ calls.bulk = 1
  /\ Outcome.errors[1][1] = "Engine error"
  /\ WeekSessions(store, req.week_starting) # <<>>

\* C14: the step that ends the allocation loop hands on a result with
\* success = true and no errors, whose warnings are the unplaced demands,
\* one each, and whose sessions are the placed ones.
C14_AllocationAlwaysSucceeds ==
  [][(pc = "allocate" /\ pc' # "allocate" /\ calls'.raised = calls.raised)
     => /\ pc' = "persist"
        /\ allocation_result'[1].success
        /\ allocation_result'[1].errors = <<>>
        /\ allocation_result'[1].warnings = unallocated_sessions
        /\ Len(allocation_result'[1].timetable_data.sessions)
             + Len(allocation_result'[1].warnings) = Len(session_slots)]_vars

\* the allocation stage has returned with every demand unplaced
C14_Witness ==
  /\ pc = "persist"
  /\ session_slots # <<>>
  /\ allocation_result[1].success
  /\ allocation_result[1].timetable_data.sessions = <<>>
  /\ Len(allocation_result[1].warnings) = Len(session_slots)

\* the run was given every row of the two tables for the week 2024-01-01,
\* found no session of the week, and has returned on or after its data
\* validation
FullRunOfWeekZero ==
  /\ Returned
  /\ req.week_starting = 0
  /\ calls.fetch = 1
  /\ calls.cleared = <<>>
  /\ FetchedChildren = children_table
  /\ FetchedTherapists = therapists_table

\* C15: the run of Scenario 1 returns success = true with 2 sessions
\* created and no warnings.
C15_Scenario1Succeeds ==
  (/\ FullRunOfWeekZero
   /\ children_table = ChildrenScenario1
   /\ therapists_table = TherapistsScenario1)
  => /\ Outcome.success
     /\ Outcome.sessions_created = 2
     /\ Outcome.warnings = <<>>

\* C15 as amended: the run of Scenario 1 fails at the data validation with
\* an 'Invalid time range' error for each of the child's two windows of
\* three hours, and allocates nothing; with windows of 09:00-11:00 instead
\* the run, unless its bulk insert fails, creates exactly 2 sessions,
\* without warnings.
C15_Scenario1FailsValidation ==
  /\ (/\ FullRunOfWeekZero
      /\ children_table = ChildrenScenario1
      /\ therapists_table = TherapistsScenario1)
     => /\ ~Outcome.success
        /\ Outcome.sessions_created = 0
        /\ Outcome.errors =
             << <<"Invalid time range", <<"child", 1>>, 540, 720>>,
                <<"Invalid time range", <<"child", 1>>, 540, 720>> >>
        /\ calls.loads = 0
        /\ store = <<>>
  /\ (/\ FullRunOfWeekZero
      /\ children_table = ChildrenTwoMornings
      /\ therapists_table = TherapistsTwoMornings
      /\ DatabaseError \notin Range(Outcome.errors))
     => /\ Outcome.success
        /\ Outcome.sessions_created = 2
        /\ Outcome.warnings = <<>>
        /\ Len(WeekSessions(store, 0)) = 2

\* the run of Scenario 1 has failed for its windows
C15_Witness ==
  /\ FullRunOfWeekZero
  /\ children_table = ChildrenScenario1
  /\ therapists_table = TherapistsScenario1
  /\ ~Outcome.success
  /\ Outcome.errors[1][1] = "Invalid time range"

\* C16: the run of Scenario 4 returns success = true with sessions_created
\* = 0 and at least one warning.
C16_Scenario4Succeeds ==
  (/\ FullRunOfWeekZero
   /\ children_table = ChildrenScenario4
   /\ therapists_table = TherapistsScenario4)
  => /\ Outcome.success
     /\ Outcome.sessions_created = 0
     /\ Outcome.warnings # <<>>

\* C16 as amended: the run of Scenario 4 fails at the data validation with
\* the one error that the therapist has no availability schedule; nothing
\* is allocated and there is no warning.
C16_Scenario4FailsValidation ==
  (/\ FullRunOfWeekZero
   /\ children_table = ChildrenScenario4
   /\ therapists_table = TherapistsScenario4)
  => /\ ~Outcome.success
     /\ Outcome.sessions_created = 0
     /\ Outcome.errors = << <<"No availability schedule set", <<"therapist", 1>>>> >>
     /\ Outcome.warnings = <<>>
     /\ calls.loads = 0
     /\ calls.bulk = 0

\* the run of Scenario 4 has failed for the therapist without windows
C16_Witness ==
  /\ FullRunOfWeekZero
  /\ children_table = ChildrenScenario4
  /\ therapists_table = TherapistsScenario4
  /\ ~Outcome.success
  /\ Outcome.errors[1][1] = "No availability schedule set"

\* the sort key of a TherapistSlot is at most that of another
KeyAtMost(a, b) ==
  \/ a.fairness_score < b.fairness_score
  \/ a.fairness_score = b.fairness_score /\ a.current_load <= b.current_load

\* two TherapistSlots that differ in nothing but their fairness score, as
\* far as the search for a slot goes
SameOffer(a, b) ==
  /\ a.department_id = b.department_id
  /\ a.availability = b.availability
  /\ a.current_load = b.current_load
  /\ \A d \in 0..5 :
       Get(therapist_daily_sessions, <<a.therapist_id, req.week_starting + d>>)
         = Get(therapist_daily_sessions, <<b.therapist_id, req.week_starting + d>>)

\* C17: an iteration of the allocation loop that looks for a slot leaves
\* the therapists of the demand's department ordered by (fairness score,
\* current load); and the therapist it gives the demand to has no twin
\* with a lower fairness score.
C17_LowerFairnessFirst ==
  [][(pc = "allocate" /\ position' = position + 1)
     => LET dept == session_slots[position + 1].department_id
        IN /\ dept \in DOMAIN therapists_by_dept
              => \A i, j \in 1..Len(therapists_by_dept'[dept]) :
                   i < j => KeyAtMost(therapist_slots[therapists_by_dept'[dept][i]],
                                      therapist_slots[therapists_by_dept'[dept][j]])
           /\ Len(allocated_sessions') = Len(allocated_sessions) + 1
              => \A t, u \in Range(therapist_slots) :
                   (/\ t.therapist_id = allocated_sessions'[Len(allocated_sessions')].therapist_id
                    /\ SameOffer(t, u))
                   => t.fairness_score <= u.fairness_score]_vars

\* the first demand of a run went to therapist 2, whose twin, therapist 1,
\* held more sessions in the previous week
C17_Witness ==
  /\ pc = "allocate"
  /\ Len(allocated_sessions) = 1
  /\ allocated_sessions[1].therapist_id = 2
  /\ Len(therapist_slots) = 2
  /\ therapist_slots[1].availability = therapist_slots[2].availability
  /\ therapist_slots[1].department_id = therapist_slots[2].department_id
  /\ therapist_slots[1].current_load = 0
  /\ Get(PreviousWeekLoads(store, req.week_starting), 1)
       > Get(PreviousWeekLoads(store, req.week_starting), 2)

\* the error entries that name the owner `name`
EntriesOf(errors, name) == SelectSeq(errors, LAMBDA e : Len(e) >= 2 /\ e[2] = name)

\* a child, or a therapist, of the fetched data that breaks a rule of the
\* data validation
OffendingChild(c) ==
  \/ c.departments = <<>>
  \/ c.availability = <<>>
  \/ \E w \in Range(c.availability) :
       ~IsValidDay(w.day_of_week) \/ ~IsValidTimeRange(w.start_time, w.end_time)

OffendingTherapist(t) ==
  \/ t.availability = <<>>
  \/ \E w \in Range(t.availability) :
       ~IsValidDay(w.day_of_week) \/ ~IsValidTimeRange(w.start_time, w.end_time)

\* C18: a run that failed at its data validation names every offending
\* child and every offending therapist in its errors, and has allocated
\* and stored nothing.
C18_EveryOffenderReported ==
  (/\ Returned
   /\ calls.fetch = 1
   /\ calls.loads = 0
   /\ calls.raised = 0)
  => /\ \A c \in Range(FetchedChildren) :
          OffendingChild(c) => EntriesOf(Outcome.errors, c.name) # <<>>
     /\ \A t \in Range(FetchedTherapists) :
          OffendingTherapist(t) => EntriesOf(Outcome.errors, t.name) # <<>>
     /\ calls.bulk = 0

\* a window with a working day and a time range with start < end, inside
\* 08:00-16:00, lasting 30 to 120 minutes
WellFormedWindow(w) ==
  /\ w.day_of_week \in {"Monday", "Tuesday", "Wednesday", "Thursday", "Friday", "Saturday"}
  /\ w.start_time < w.end_time
  /\ 480 <= w.start_time
  /\ w.end_time <= 960
  /\ 30 <= w.end_time - w.start_time
  /\ w.end_time - w.start_time <= 120

\* every child has a need and a window, every therapist a window and a
\* department id, and every window is well formed
WellFormedData(children, therapists) ==
  /\ \A c \in Range(children) :
       /\ Len(c.departments) >= 1
       /\ Len(c.availability) >= 1
       /\ \A w \in Range(c.availability) : WellFormedWindow(w)
  /\ \A t \in Range(therapists) :
       /\ Len(t.availability) >= 1
       /\ t.department_id \in Nat
       /\ \A w \in Range(t.availability) : WellFormedWindow(w)

\* C19: the data a run goes on with after its data validation is well
\* formed; and a run whose fetched data is not well formed has failed
\* without allocating or storing anything.
C19_OnlyWellFormedDataAccepted ==
  /\ pc \in {"prepare", "allocate", "persist", "overview"}
     => WellFormedData(children_data, therapists_data)
  /\ (/\ Returned
      /\ calls.fetch = 1
      /\ ~WellFormedData(FetchedChildren, FetchedTherapists))
     => /\ ~Outcome.success
        /\ Outcome.sessions_created = 0
        /\ Outcome.errors # <<>>
        /\ calls.loads = 0
        /\ calls.bulk = 0

\* a run has failed whose one fault was a child's window on a Sunday
C19_Witness ==
  /\ Returned
  /\ calls.fetch = 1
  /\ ~Outcome.success
  /\ Outcome.errors = << <<"Invalid day", <<"child", 1>>, "Sunday">> >>
  /\ ~WellFormedData(FetchedChildren, FetchedTherapists)

\* the value a read route would compute from the tables for the key
DirectRead(d, key) ==
  IF key = ChildrenKey THEN ChildrenList(d)
  ELSE IF key = TherapistsKey THEN TherapistsList(d)
  ELSE IF key[1] = "child:availability" THEN ChildAvailabilityList(d, key[2])
  ELSE TherapistAvailabilityList(d, key[2])

\* C20: once a mutating child or therapist route has completed, no cache
\* entry holds data of the mutated entity that differs from the tables, so
\* GET /children, GET /therapists and the availability reads, which answer
\* from the cache on a hit, return what a direct database read returns.
C20_ReadsReturnDatabaseState ==
  /\ \A key \in CacheKeys :
       Hit(RedisGet(cache, key)) => RedisGet(cache, key)[1] = DirectRead(db, key)
  /\ \A r \in Range(response) :
       "body" \in DOMAIN r => r.body = DirectRead(db, r.key)

\* the value a read route of the sessions would compute from the tables
DirectSessionRead(d, sessions, key) ==
  IF key[1] = "timetable:week" THEN WeeklyTimetable(d, sessions, key[2])
  ELSE IF key[1] = "report:week" THEN WeeklyReport(d, sessions, key[2])
  ELSE DailyReport(d, sessions, key[2])

\* C21: once an operation that changes the stored sessions of a week has
\* completed, no cached weekly timetable, weekly report or daily report
\* differs from the tables, so a cached read equals a direct database read.
C21_SessionReadsReturnDatabaseState ==
  /\ \A key \in TimetableCacheKeys :
       HitDict(RedisGet(cache, key))
         => RedisGet(cache, key)[1] = DirectSessionRead(db, store, key)
  /\ \A r \in Range(response) :
       "body" \in DOMAIN r => r.body = DirectSessionRead(db, store, r.key)

\* the value the read route of `key` computes from the tables
DirectReadAny(d, sessions, key) ==
  IF key \in CacheKeys THEN DirectRead(d, key) ELSE DirectSessionRead(d, sessions, key)

\* C22: while Redis is not available no key is ever set (every set and
\* invalidate is a no-op, every get a miss), and every read route answers
\* with exactly what it computes from the tables.
C22_UnavailableCacheIsTransparent ==
  ~available =>
    /\ cache = EmptyCache
    /\ \A key \in DOMAIN cache : RedisGet(cache, key) = <<>>
    /\ \A r \in Range(response) :
         "body" \in DOMAIN r => r.body = DirectReadAny(db, store, r.key)

\* without Redis, GET /children has answered with a child a route created
C22_Witness ==
  /\ ~available
  /\ \E r \in Range(response) :
       /\ "body" \in DOMAIN r
       /\ r.key = ChildrenKey
       /\ Len(r.body) = 1

\* the two calls have both returned a success for one week without
\* regenerating
BothPersisted ==
  /\ pc = "done"
  /\ parked.pc = "done"
  /\ req.week_starting = parked.req.week_starting
  /\ ~req.regenerate_existing
  /\ ~parked.req.regenerate_existing
  /\ result[1].success
  /\ parked.result[1].success

\* C23: of two concurrent runs for one week with regenerate_existing =
\* false at most one persists sessions, under every interleaving of their
\* store operations.
C23_OneWriterPerWeek == ~BothPersisted

\* C24: a step of a run changes nothing that another run reads but the
\* sessions table: the daily counters, the loads, the fairness scores and
\* the random sequence that orders the demands belong to the run.
C24_RunsShareOnlyTheStore ==
  [][<<children_table, therapists_table, generator, cache_vars>>'
       = <<children_table, therapists_table, generator, cache_vars>>]_vars

\* the stages of a run that have called the store, in their order
StageCalls == <<calls.clear, calls.fetch, calls.loads, calls.bulk, calls.overview>>

\* the batch the allocation stage returned
Batch == allocation_result[1].timetable_data.sessions

\* C25: a run makes its stages in the order request validation, clearing
\* (when regenerate_existing is true, and only then), fetch and data
\* validation, model building, allocation, conflict check, persistence,
\* overview, each at most once and only when every stage before it
\* succeeded; rows are added to the sessions table only by the persistence
\* stage, all of the batch at once and after the batch passed the conflict
\* check; and a run that has returned runs no stage.
C25_StagesInOrder ==
  /\ [][calls'.clear > calls.clear
        => /\ StageCalls = <<0, 0, 0, 0, 0>>
           /\ req.regenerate_existing
           /\ ~RequestInvalid(store, req)]_vars
  /\ [][calls'.fetch > calls.fetch
        => /\ StageCalls = <<IF req.regenerate_existing THEN 1 ELSE 0, 0, 0, 0, 0>>
           /\ ~RequestInvalid(store, req)]_vars
  /\ [][calls'.loads > calls.loads
        => /\ StageCalls = <<IF req.regenerate_existing THEN 1 ELSE 0, 1, 0, 0, 0>>
           /\ children_data = FetchedChildren
           /\ therapists_data = FetchedTherapists
           /\ ValidateInputData(children_data, therapists_data).success]_vars
  /\ [][position' # position /\ pc = "allocate"
        => /\ StageCalls = <<IF req.regenerate_existing THEN 1 ELSE 0, 1, 1, 0, 0>>
           /\ allocation_result = <<>>]_vars
  /\ [][calls'.bulk > calls.bulk
        => /\ StageCalls = <<IF req.regenerate_existing THEN 1 ELSE 0, 1, 1, 0, 0>>
           /\ position = Len(session_slots)
           /\ allocation_result[1].success
           /\ Batch = allocated_sessions
           /\ IF CheckTimeConflicts(Batch) # <<>>
                THEN /\ store' = store
                     /\ pc' = "done"
                     /\ ~result'[1].success
                ELSE \/ /\ store' = store \o Map(Batch, SessionRow)
                        /\ created_count' = Len(Batch)
                        /\ pc' = "overview"
                     \/ /\ store' = store
                        /\ pc' = "done"
                        /\ ~result'[1].success]_vars
  /\ [][Len(store') > Len(store) => calls'.bulk > calls.bulk]_vars
  /\ [][calls'.overview > calls.overview
        => /\ StageCalls = <<IF req.regenerate_existing THEN 1 ELSE 0, 1, 1, 1, 0>>
           /\ created_count = calls.rows
           /\ \A a \in Range(Batch) : SessionRow(a) \in Range(store)
           /\ pc' = "done"
           /\ result'[1].success]_vars
  /\ [][pc = "done"
        => /\ store' = store
           /\ <<calls'.clear, calls'.fetch, calls'.loads, calls'.bulk, calls'.overview>>
                = <<0, 0, 0, 0, 0>>]_vars
  /\ [][(pc' = "done" /\ result' # <<>> /\ ~result'[1].success)
        => calls'.overview = 0]_vars

\* a run that cleared the week, fetched, built its model and allocated
\* two sessions or more has returned the failure of its insert without
\* making the overview
C25_Witness ==
  /\ Returned
  /\ ~Outcome.success
  /\ StageCalls = <<1, 1, 1, 1, 0>>
  /\ calls.rows >= 2
  /\ calls.raised = 0


\* the one-hour slots of the overlap of the windows t and c: the k-th one
\* starts 60(k - 1) minutes after the start of the overlap
ExpectedSlots(t, c) ==
  LET s == Max(t[1], c[1])
      e == Min(t[2], c[2])
  IN IF s < e
       THEN [k \in 1..((e - s) \div 60) |-> <<s + 60 * (k - 1), s + 60 * k>>]
       ELSE <<>>

\* C26: for window lists inside the working hours, _find_overlapping_slots
\* returns, pair by pair (one window of each list), the slots
\* [s + 60k, s + 60(k + 1)) for k = 0 .. floor(minutes of overlap / 60) - 1
\* of the overlap [s, e) of the pair, and nothing for a pair without overlap:
\* every slot returned is 60 minutes long and lies inside both windows of a
\* pair, and no partial slot is returned.
C26_SlotsTileTheOverlap ==
  returned # <<>>
  => /\ returned[1] =
          FlatMap(arguments[1], LAMBDA t :
            FlatMap(arguments[2], LAMBDA c : ExpectedSlots(t, c)))
     /\ \A slot \in Range(returned[1]) :
          /\ slot[2] - slot[1] = 60
          /\ \E t \in Range(arguments[1]), c \in Range(arguments[2]) :
               /\ t[1] <= slot[1] /\ slot[2] <= t[2]
               /\ c[1] <= slot[1] /\ slot[2] <= c[2]

\* the call returned the two slots of an overlap of two hours and a half
\* that starts at 09:30, and nothing for a pair that only touches
C26_Witness ==
  /\ arguments = << << <<480, 540>>, <<540, 690>> >>, << <<540, 570>>, <<570, 690>> >> >>
  /\ returned = << << <<570, 630>>, <<630, 690>> >> >>

\* C27: the conflict check returns a conflict when, and only when, the
\* batch holds two sessions of one therapist on one date whose [start, end)
\* overlap: looking at the neighbours of each group sorted by start misses
\* no group with such a pair, and two sessions that touch are not reported.
C27_ConflictIffOverlap ==
  returned # <<>>
  => /\ (returned[1] # <<>>) <=> TherapistOverlap(arguments)
     /\ \A conflict \in Range(returned[1]) : conflict[5] > conflict[6]

\* of three sessions of one therapist on one date, the first one overlaps
\* the two others, which touch, and is not the neighbour of the third: one
\* conflict is returned
C27_Witness ==
  /\ Len(arguments) = 3
  /\ \A i \in 1..3 : arguments[i].therapist_id = 1 /\ arguments[i].date = 0
  /\ <<arguments[1].start_time, arguments[1].end_time>> = <<660, 720>>
  /\ <<arguments[2].start_time, arguments[2].end_time>> = <<540, 720>>
  /\ <<arguments[3].start_time, arguments[3].end_time>> = <<600, 660>>
  /\ returned # <<>>
  /\ Len(returned[1]) = 1

\* the assignments the run has committed to the therapist
CommittedTo(therapist_id) ==
  Cardinality({i \in 1..Len(allocated_sessions) :
                 allocated_sessions[i].therapist_id = therapist_id})

\* the value of the counter `d` at `k` went up by one and no other value of
\* it changed
OnlyOneMore(d_after, d, k) ==
  /\ Get(d_after, k) = Get(d, k) + 1
  /\ \A x \in (DOMAIN d_after \cup DOMAIN d) \ {k} : Get(d_after, x) = Get(d, x)

\* C28: the commit of an assignment to therapist T on date D for child C
\* adds one to T's current_load, one to T's fairness score, one to the
\* counter of (C, D) and one to the counter of (T, D), and changes no other
\* therapist and no other counter; and all through the allocation the
\* fairness score of a therapist is the load of the previous week plus the
\* load of the week at the start plus the assignments committed to the
\* therapist in the run.
C28_CommitAddsOne ==
  /\ [][Len(allocated_sessions') = Len(allocated_sessions) + 1
        => LET best == allocated_sessions'[Len(allocated_sessions')]
               C == session_slots[position'].child_id
           IN /\ Len(therapist_slots') = Len(therapist_slots)
              /\ \A i \in 1..Len(therapist_slots) :
                   IF therapist_slots[i].therapist_id = best.therapist_id
                     THEN therapist_slots'[i] =
                            [therapist_slots[i] EXCEPT !.current_load = @ + 1,
                                                       !.fairness_score = @ + 1]
                     ELSE therapist_slots'[i] = therapist_slots[i]
              /\ OnlyOneMore(child_daily_sessions', child_daily_sessions, <<C, best.date>>)
              /\ OnlyOneMore(therapist_daily_sessions', therapist_daily_sessions,
                             <<best.therapist_id, best.date>>)]_vars
  /\ [](pc = "allocate"
        => \A i \in 1..Len(therapist_slots) :
             LET T == therapist_slots[i].therapist_id
             IN /\ therapist_slots[i].current_load =
                     Get(WeekLoads(store, req.week_starting), T) + CommittedTo(T)
                /\ therapist_slots[i].fairness_score =
                     Get(PreviousWeekLoads(store, req.week_starting), T)
                     + Get(WeekLoads(store, req.week_starting), T) + CommittedTo(T))

\* a therapist who had sessions in the previous week has been given two
\* sessions or more, the other therapist of the run none
C28_Witness ==
  /\ pc = "allocate"
  /\ Len(therapist_slots) >= 2
  /\ \E i, j \in 1..Len(therapist_slots) :
       /\ Get(PreviousWeekLoads(store, req.week_starting), therapist_slots[i].therapist_id) >= 1
       /\ CommittedTo(therapist_slots[i].therapist_id) >= 2
       /\ CommittedTo(therapist_slots[j].therapist_id) = 0

\* the candidates of the demand the allocation loop visits next, in the
\* order they are collected: day by day, therapist by therapist in the
\* sorted order `sorted`, slot by slot
Candidates(sorted) ==
  BestOptions(session_slots[position + 1],
              Map(sorted, LAMBDA i : therapist_slots[i]),
              req.week_starting, child_daily_sessions, therapist_daily_sessions)

\* the first of the options whose score no option exceeds
FirstOfMaximum(options) ==
  LET k == CHOOSE i \in 1..Len(options) :
             /\ \A j \in 1..Len(options) :
                  options[j].priority_score <= options[i].priority_score
             /\ \A j \in 1..(i - 1) :
                  options[j].priority_score < options[i].priority_score
  IN options[k]

\* the department of the demand the loop visits next has therapists
HasTherapists ==
  /\ session_slots[position + 1].department_id \in DOMAIN therapists_by_dept
  /\ therapists_by_dept[session_slots[position + 1].department_id] # <<>>

\* C29: the assignment committed for a demand is, of the candidates
\* collected over the days of the child, the sorted therapists and the
\* overlap slots, the first one in the order of collection whose priority
\* score no candidate exceeds; and the demand is left unplaced only when
\* there is no candidate.
C29_FirstBestCandidate ==
  [][(pc = "allocate" /\ position' = position + 1)
     => IF ~HasTherapists
          THEN /\ Len(unallocated_sessions') = Len(unallocated_sessions) + 1
               /\ allocated_sessions' = allocated_sessions
          ELSE LET options ==
                     Candidates(therapists_by_dept'[session_slots[position + 1].department_id])
               IN IF options = <<>>
                    THEN /\ Len(unallocated_sessions') = Len(unallocated_sessions) + 1
                         /\ allocated_sessions' = allocated_sessions
                    ELSE /\ unallocated_sessions' = unallocated_sessions
                         /\ allocated_sessions' =
                              Append(allocated_sessions, FirstOfMaximum(options))]_vars

\* the counter `d` before the commit that counted `k`
BeforeCommit(d, k) == [d EXCEPT ![k] = @ - 1]

\* the candidates of the demand visited last, which was placed
LastCandidates ==
  LET best == allocated_sessions[position]
      session_slot == session_slots[position]
      before == [i \in 1..Len(therapist_slots) |->
                   IF therapist_slots[i].therapist_id = best.therapist_id
                     THEN [therapist_slots[i] EXCEPT !.current_load = @ - 1,
                                                     !.fairness_score = @ - 1]
                     ELSE therapist_slots[i]]
  IN BestOptions(session_slot,
                 Map(therapists_by_dept[session_slot.department_id], LAMBDA i : before[i]),
                 req.week_starting,
                 BeforeCommit(child_daily_sessions, <<session_slot.child_id, best.date>>),
                 BeforeCommit(therapist_daily_sessions, <<best.therapist_id, best.date>>))

\* the demand visited last was placed on the first of two candidates or more
\* of the highest score, the candidate collected first having a lower one
C29_Witness ==
  /\ pc = "allocate"
  /\ position >= 1
  /\ unallocated_sessions = <<>>
  /\ Len(allocated_sessions) = position
  /\ LET best == allocated_sessions[position]
         options == LastCandidates
     IN /\ options # <<>>
        /\ best = FirstOfMaximum(options)
        /\ options[1].priority_score < best.priority_score
        /\ Cardinality({k \in 1..Len(options) :
                          options[k].priority_score = best.priority_score}) >= 2

\* C30: the priority score of a candidate is 100 + 2 * (10 - the current
\* load of the therapist) + 5 for a slot that starts before 12:00 + max(0,
\* 3 - the sessions of the child on the date) + max(0, 6 - the sessions of
\* the therapist on the date), the fairness term having no lower bound; and
\* after the commit of an assignment to the therapist the candidate scores
\* strictly less than before it.
C30_PriorityScore ==
  /\ Len(returned) = arguments.commits + 1
     => returned[1] =
          100 + 2 * (10 - arguments.therapist.current_load)
          + (IF arguments.time_slot[1] < 720 THEN 5 ELSE 0)
          + Max(0, 3 - Get(arguments.child_daily_sessions, <<1, 0>>))
          + Max(0, 6 - Get(arguments.therapist_daily_sessions, <<1, 0>>))
  /\ Len(returned) = 2 => returned[1] < returned[2]

\* a candidate of a therapist with a load of twelve after the commit scores
\* 96, less than the base priority, and had scored 98
C30_Witness ==
  /\ arguments # <<>>
  /\ arguments.therapist.current_load = 12
  /\ returned = <<96, 98>>

\* the counter `d_after` has, at every key, at least what `d` has
NotLess(d_after, d) == \A x \in DOMAIN d : Get(d_after, x) >= Get(d, x)

\* C31: the allocation loop visits the demands one by one in the shuffled
\* order, each once: every step of it settles the next demand and no other,
\* leaves the shuffled list as it is, keeps every assignment made before as
\* it is, and lowers no daily counter and no therapist load.
C31_NoBacktracking ==
  [][(pc = "allocate" /\ pc' \in {"allocate", "persist"})
     => /\ session_slots' = session_slots
        /\ position' \in {position, position + 1}
        /\ position' = position + 1 => pc' = "allocate"
        /\ Len(allocated_sessions') + Len(unallocated_sessions') = position'
        /\ Len(allocated_sessions') >= Len(allocated_sessions)
        /\ SubSeq(allocated_sessions', 1, Len(allocated_sessions)) = allocated_sessions
        /\ Len(unallocated_sessions') >= Len(unallocated_sessions)
        /\ SubSeq(unallocated_sessions', 1, Len(unallocated_sessions)) = unallocated_sessions
        /\ NotLess(child_daily_sessions', child_daily_sessions)
        /\ NotLess(therapist_daily_sessions', therapist_daily_sessions)
        /\ Len(therapist_slots') = Len(therapist_slots)
        /\ \A i \in 1..Len(therapist_slots) :
             /\ therapist_slots'[i].therapist_id = therapist_slots[i].therapist_id
             /\ therapist_slots'[i].current_load >= therapist_slots[i].current_load
             /\ therapist_slots'[i].fairness_score >= therapist_slots[i].fairness_score]_vars

\* the loop has placed three demands, on two dates or with two therapists
C31_Witness ==
  /\ pc = "allocate"
  /\ position = 3
  /\ Len(allocated_sessions) = 3
  /\ Cardinality(DOMAIN therapist_daily_sessions) >= 2

\* no TherapistSlot has the department of the demand the loop visits next
NoSupply ==
  \A i \in 1..Len(therapist_slots) :
    therapist_slots[i].department_id # session_slots[position + 1].department_id

\* C32: when no therapist slot has the department of the demand, the step
\* of the allocation loop records 'No therapists available for' with the
\* name of the department, places nothing, changes no counter and no
\* therapist, and the loop goes on.
C32_NoSupplyIsRecorded ==
  [][(pc = "allocate" /\ position' = position + 1 /\ NoSupply)
     => /\ unallocated_sessions' =
             Append(unallocated_sessions,
                    <<"No therapists available for",
                      session_slots[position + 1].department_name>>)
        /\ allocated_sessions' = allocated_sessions
        /\ child_daily_sessions' = child_daily_sessions
        /\ therapist_daily_sessions' = therapist_daily_sessions
        /\ therapist_slots' = therapist_slots
        /\ pc' = "allocate"]_vars

\* the first demand had no therapist of its department, and the loop has
\* placed a later one
C32_Witness ==
  /\ pc = "allocate"
  /\ position >= 2
  /\ \A i \in 1..Len(therapist_slots) :
       therapist_slots[i].department_id # session_slots[1].department_id
  /\ unallocated_sessions =
       << <<"No therapists available for", session_slots[1].department_name>> >>
  /\ Len(allocated_sessions) >= 1

\* the sum of sessions_per_week over the (child, department need) pairs
DemandsOf(children) ==
  SumSeq(children, LAMBDA child :
    SumSeq(child.departments, LAMBDA dept : dept.sessions_per_week))

\* the demands built for the child and the department
SlotsFor(child_id, department_id) ==
  Cardinality({i \in 1..Len(session_slots) :
                 /\ session_slots[i].child_id = child_id
                 /\ session_slots[i].department_id = department_id})

\* C33: the demands built are as many as the sum of sessions_per_week over
\* the (child, department need) pairs, sessions_per_week of them for each
\* pair; the assignments and the unallocated warnings together are as many
\* as the demands visited, all of them at the end of the allocation; and
\* sessions_created is the number of assignments.
C33_EveryDemandAccounted ==
  /\ pc \in {"allocate", "persist", "overview"}
     => /\ Len(session_slots) = DemandsOf(children_data)
        /\ \A c \in 1..Len(children_data) :
             \A d \in 1..Len(children_data[c].departments) :
               SlotsFor(children_data[c].id, children_data[c].departments[d].department_id)
                 = children_data[c].departments[d].sessions_per_week
        /\ Len(allocated_sessions) + Len(unallocated_sessions) = position
  /\ pc \in {"persist", "overview"}
     => /\ position = Len(session_slots)
        /\ allocation_result[1].sessions_created = Len(allocated_sessions)
        /\ allocation_result[1].timetable_data.sessions = allocated_sessions
        /\ allocation_result[1].warnings = unallocated_sessions
  /\ pc = "overview" => created_count = Len(allocated_sessions)
  /\ (Returned /\ Outcome.success)
     => /\ Outcome.sessions_created = calls.rows
        /\ Outcome.sessions_created + Len(Outcome.warnings) - calls.clear * (IF calls.cleared # <<>> THEN 1 ELSE 0)
             = DemandsOf(FetchedChildren)

\* the allocation of five demands or more has ended with assignments and
\* with unallocated warnings
C33_Witness ==
  /\ pc = "persist"
  /\ Len(session_slots) >= 5
  /\ Len(allocated_sessions) >= 2
  /\ Len(unallocated_sessions) >= 1

\* the name of the day of week of the date (day 0 is a Monday), "Sunday"
\* for the seventh day
DayOfWeek(session_date) ==
  IF session_date % 7 < Len(valid_days) THEN valid_days[(session_date % 7) + 1]
  ELSE "Sunday"

\* C34: an assignment, when it is committed, has the department of the
\* demand it is made for, the therapist it names is of that department, and
\* the therapist has an availability window on the day of week of the date
\* of the assignment.
C34_SameDepartmentAndDay ==
  [][(pc = "allocate" /\ Len(allocated_sessions') = Len(allocated_sessions) + 1)
     => LET best == allocated_sessions'[Len(allocated_sessions')]
            demand == session_slots[position + 1]
        IN /\ best.child_id = demand.child_id
           /\ best.department_id = demand.department_id
           /\ \E i \in 1..Len(therapist_slots) :
                therapist_slots[i].therapist_id = best.therapist_id
           /\ \A i \in 1..Len(therapist_slots) :
                therapist_slots[i].therapist_id = best.therapist_id
                => /\ therapist_slots[i].department_id = demand.department_id
                   /\ DayOfWeek(best.date) \in DOMAIN therapist_slots[i].availability
                   /\ \E t \in Range(therapists_data) :
                        /\ t.id = best.therapist_id
                        /\ t.department_id = best.department_id
                        /\ \E a \in Range(t.availability) :
                             a.day_of_week = DayOfWeek(best.date)]_vars

\* a run with therapists of two departments has assignments of both, one
\* of them on a Tuesday
C34_Witness ==
  /\ pc = "allocate"
  /\ \E i, j \in 1..Len(allocated_sessions) :
       /\ allocated_sessions[i].department_id = 1
       /\ allocated_sessions[j].department_id = 2
       /\ allocated_sessions[i].therapist_id # allocated_sessions[j].therapist_id
       /\ DayOfWeek(allocated_sessions[j].date) = "Tuesday"

\* two sessions of one child on one date whose [start, end) overlap
ChildOverlap(rows) ==
  \E i, j \in 1..Len(rows) :
    /\ i < j
    /\ rows[i].child_id = rows[j].child_id
    /\ rows[i].date = rows[j].date
    /\ rows[i].start_time < rows[j].end_time
    /\ rows[j].start_time < rows[i].end_time

\* C35: the sessions table never holds two sessions of one child on one
\* date with overlapping [start, end), whether with one therapist or with
\* two.
C35_ChildNeverDoubleBooked == ~ChildOverlap(store)

\* the warnings the data validation of the run gave
DataValidationWarnings == ValidateInputData(FetchedChildren, FetchedTherapists).warnings

\* C36: the warnings of a successful run hold the warnings of every stage:
\* the notice of the sessions cleared, the high utilization warnings of the
\* data validation and the unallocated warnings of the allocation.
C36_AllWarningsReturned ==
  (Returned /\ Outcome.success)
  => /\ calls.cleared # <<>>
          => <<"Cleared existing sessions", Len(calls.cleared)>> \in Range(Outcome.warnings)
     /\ Range(DataValidationWarnings) \subseteq Range(Outcome.warnings)

\* the while loop of _find_overlapping_slots ends when it is started at
\* current_time: it does unless a slot end passes midnight, after which
\* current_time is below overlap_end again and comes back to where it was
RECURSIVE TilingEnds(_, _)
TilingEnds(current_time, overlap_end) ==
  IF current_time >= overlap_end THEN TRUE
  ELSE IF current_time + 60 >= 1440 THEN FALSE
  ELSE TilingEnds(current_time + 60, overlap_end)

\* the tiling loop ends for every pair of a window of a therapist and a
\* window of a child of the data of the run
EveryTilingEnds ==
  \A t \in Range(therapists_data), c \in Range(children_data) :
    \A a \in Range(t.availability), b \in Range(c.availability) :
      /\ 480 <= a.start_time /\ a.end_time <= 960
      /\ 480 <= b.start_time /\ b.end_time <= 960
      /\ TilingEnds(Max(a.start_time, b.start_time), Min(a.end_time, b.end_time))

\* C37: a run whose data passed validation has all its windows within
\* 08:00-16:00, so that the tiling loop ends for every pair of windows; its
\* allocation loop has visited every demand when it ends; every step of a
\* run is the end of a stage or the next demand of the loop; and every run
\* that has started returns an outcome, a success or a failure.
C37_EveryRunTerminates ==
  /\ [](pc \in {"prepare", "allocate", "persist", "overview"} => EveryTilingEnds)
  /\ [](pc \in {"persist", "overview"} => position = Len(session_slots))
  /\ [][pc \notin {"idle", "done"} => <<NextStage>>_pc \/ <<NextDemand>>_position]_vars
  /\ (pc \notin {"idle", "done"}) ~> Returned

\* a run whose loop placed three demands or more has returned a success
C37_Witness ==
  /\ Returned
  /\ Outcome.success
  /\ Outcome.sessions_created >= 3

\* the route has answered the call whose result is `result`
Answered ==
  /\ pc = "idle"
  /\ result # <<>>
  /\ response # <<>>
  /\ "status" \in DOMAIN response[1]

\* C38: the route answers a failed GenerationResult with status 400, the
\* engine's error list and its sessions_created, and a successful one with
\* the dict of status 200.
C38_FailureAnswers400 ==
  Answered =>
    IF Outcome.success
      THEN response[1].status = 200
      ELSE /\ response[1].status = 400
           /\ response[1].detail.errors = Outcome.errors
           /\ response[1].detail.sessions_created = Outcome.sessions_created

\* what the route does do: a failed result leaves it as the 500 of the
\* except clause, which carries the 400 and its detail as the error text,
\* and the cached timetable of the week goes on a success only
GenerateFailureIs500 ==
  Answered /\ ~Outcome.success =>
    /\ response[1].status = 500
    /\ response[1].detail.error[1] = 400
    /\ response[1].detail.error[2].errors = Outcome.errors

CacheGoesOnSuccessOnly ==
  [][\A k \in DOMAIN cache :
       cache[k] # <<>> /\ cache'[k] = <<>> => pc = "done" /\ result[1].success]_vars

============================================================================
